---- MODULE Spec2Model ----
(***************************************************************************)
(* Model of the manifest marker compiler of operator-builder:              *)
(* filename deduplication, unique resource naming, marker result           *)
(* processing, sample/default rendering and the collection schema merge.   *)
(* Strings are sequences of one-character strings, so that splitting,      *)
(* replacing, title-casing and formatting are computed, not assumed.       *)
(***************************************************************************)
EXTENDS Integers, Sequences, FiniteSets, TLC

VARIABLES
    pc,           \* position of the run: which operation has been applied
    candidates,   \* the candidate filenames, one per manifest file, in input order
    SourceFiles,  \* ws.SourceFiles: sequence of [Filename, Children]
    objects,      \* the decoded manifest objects (unstructured.Unstructured)
    Children,     \* the Child resources built from the decoded objects
    api,          \* an APISpecField: DataType, DefaultVal, SampleField
    sampleArgs,   \* the arguments (name, value) of setSampleAndDefault
    markerResults,           \* the inspected marker results handed to processMarkerResults
    APISpecFields,           \* ws.APISpecFields: the schema tree rooted at Spec
    FieldMarkers,            \* ws.FieldMarkers
    CollectionFieldMarkers,  \* ws.CollectionFieldMarkers
    ForCollection,           \* ws.ForCollection
    collection,              \* ws.collection (package v1)
    collectionResources,     \* ws.collectionResources (package v1)
    addFieldCalls,           \* the arguments of the AddField calls made, in call order
    err,                     \* the error returned by the operation, "nil" when none
    Manifests,               \* ws.Manifests: sequence of [Filename, SourceFilename, Content]
    markerTypes,             \* the marker types processManifests is called with
    hasCollection,           \* ws.Collection != nil
    RBACRules,               \* ws.RBACRules
    OwnershipRules,          \* ws.OwnershipRules (package v1)
    Cleaned,                 \* the buffers processMarkers produced in the last run, per file
    errFile,                 \* the manifest file named by the returned error, "" when none
    runs,                    \* number of processManifests runs made on the WorkloadSpec
    firstRun,                \* what the caller received from the first run
    unitResults,             \* what processMarkers returned for the collection and each component
    fieldRecords,            \* the APISpecField records the returned SpecFields point to
    cSpec,                   \* c.Spec: SourceFiles, RBACRules, OwnershipRules, APISpecFields
    setErr,                  \* the error returned by SetResources, "nil" when none
    workloadCollection,      \* c, a WorkloadCollection: Name, PackageName, Spec
    validateErr,             \* the error returned by Validate, "nil" when none
    scaffolder,              \* the apiScaffolder: workload, cliRootCommandName
    executed,                \* the templates scaffold.Execute wrote, in call order
    scaffoldErr,             \* the error returned by Scaffold, "nil" when none
    Watches,                 \* r.Watches of the generated reconciler
    watched,                 \* the kinds r.Controller.Watch registered, in call order
    lastCall,                \* the inputs of the last Reconcile call
    result                   \* what the last Reconcile call returned and did

fileVars == <<candidates, SourceFiles>>
nameVars == <<objects, Children>>
sampleVars == <<api, sampleArgs>>
markerVars == <<markerResults, APISpecFields, FieldMarkers, CollectionFieldMarkers,
                ForCollection, collection, collectionResources, addFieldCalls, err>>

kindVars == <<Manifests, markerTypes, hasCollection, RBACRules, OwnershipRules,
              Cleaned, errFile, runs, firstRun>>

mergeVars == <<unitResults, fieldRecords, cSpec, setErr>>

collVars == <<workloadCollection, validateErr>>

scaffVars == <<scaffolder, executed, scaffoldErr>>

ctrlVars == <<Watches, watched, lastCall, result>>

vars == <<pc, fileVars, nameVars, sampleVars, markerVars, kindVars, mergeVars,
          collVars, scaffVars, ctrlVars>>

restOfFiles == <<nameVars, sampleVars, markerVars, kindVars, mergeVars,
    collVars, scaffVars, ctrlVars>>
restOfNames == <<fileVars, sampleVars, markerVars, kindVars, mergeVars,
    collVars, scaffVars, ctrlVars>>
restOfSample == <<fileVars, nameVars, markerVars, kindVars, mergeVars,
    collVars, scaffVars, ctrlVars>>
restOfMarkers == <<fileVars, nameVars, sampleVars, kindVars, mergeVars,
    collVars, scaffVars, ctrlVars>>
restOfKinds == <<candidates, nameVars, sampleVars, markerResults, mergeVars,
    collVars, scaffVars, ctrlVars>>
restOfColl == <<fileVars, nameVars, sampleVars, markerVars, kindVars, mergeVars,
    scaffVars, ctrlVars>>
restOfScaff == <<fileVars, nameVars, sampleVars, markerVars, kindVars, mergeVars,
    collVars, ctrlVars>>
restOfCtrl == <<fileVars, nameVars, sampleVars, markerVars, kindVars, mergeVars,
    collVars, scaffVars>>
restOfMerge == <<fileVars, nameVars, sampleVars, markerVars, kindVars,
    collVars, scaffVars, ctrlVars>>

\* values of the variables an operation does not use
IdleFiles == candidates = <<>> /\ SourceFiles = <<>>
IdleNames == objects = <<>> /\ Children = <<>>
IdleSample == api = <<>> /\ sampleArgs = <<>>
IdleMarkers ==
    /\ markerResults = <<>> /\ APISpecFields = <<>>
    /\ FieldMarkers = <<>> /\ CollectionFieldMarkers = <<>>
    /\ ForCollection = FALSE /\ collection = FALSE /\ collectionResources = FALSE
    /\ addFieldCalls = <<>> /\ err = "nil"
IdleKinds ==
    /\ Manifests = <<>> /\ markerTypes = {} /\ hasCollection = FALSE
    /\ RBACRules = <<>> /\ OwnershipRules = <<>> /\ Cleaned = <<>>
    /\ errFile = "" /\ runs = 0 /\ firstRun = <<>>
IdleMerge ==
    unitResults = <<>> /\ fieldRecords = <<>> /\ cSpec = <<>> /\ setErr = "nil"
IdleColl == workloadCollection = <<>> /\ validateErr = "nil"
IdleScaff == scaffolder = <<>> /\ executed = <<>> /\ scaffoldErr = "nil"
IdleCtrl == Watches = <<>> /\ watched = <<>> /\ lastCall = <<>> /\ result = <<>>
IdleTools == IdleColl /\ IdleScaff /\ IdleCtrl
IdleCompiler ==
    IdleFiles /\ IdleNames /\ IdleSample /\ IdleMarkers /\ IdleKinds /\ IdleMerge
IdleRestOfColl == IdleCompiler /\ IdleScaff /\ IdleCtrl
IdleRestOfScaff == IdleCompiler /\ IdleColl /\ IdleCtrl
IdleRestOfCtrl == IdleCompiler /\ IdleColl /\ IdleScaff
IdleRestOfFiles ==
    IdleNames /\ IdleSample /\ IdleMarkers /\ IdleKinds /\ IdleMerge /\ IdleTools
IdleRestOfNames ==
    IdleFiles /\ IdleSample /\ IdleMarkers /\ IdleKinds /\ IdleMerge /\ IdleTools
IdleRestOfSample ==
    IdleFiles /\ IdleNames /\ IdleMarkers /\ IdleKinds /\ IdleMerge /\ IdleTools
IdleRestOfMarkers ==
    IdleFiles /\ IdleNames /\ IdleSample /\ IdleKinds /\ IdleMerge /\ IdleTools
IdleRestOfKinds ==
    /\ candidates = <<>> /\ IdleNames /\ IdleSample
    /\ markerResults = <<>>
    /\ IdleMerge
    /\ IdleTools
IdleRestOfMerge ==
    IdleFiles /\ IdleNames /\ IdleSample /\ IdleMarkers /\ IdleKinds /\ IdleTools

----------------------------------------------------------------------------
(* Bounds *)

MaxFiles == 4
MaxMarkers == 2
MaxManifests == 2
MaxRuns == 2
MaxComponents == 2

----------------------------------------------------------------------------
(* String helpers (package strings / fmt) *)

\* the value of a singleton set: Value({ e(x) : x \in {v} }) binds x to v once
Value(S) == CHOOSE v \in S : TRUE

Digits == <<"0", "1", "2", "3", "4", "5", "6", "7", "8", "9">>

RECURSIVE Itoa(_)
\* fmt's %v of a non-negative int
Itoa(n) == IF n < 10 THEN <<Digits[n + 1]>>
           ELSE Itoa(n \div 10) \o <<Digits[(n % 10) + 1]>>

\* strings.Index: position of the first occurrence of sep in s, 0 when absent
Index(s, sep) ==
    LET hits == {p \in 1..(Len(s) - Len(sep) + 1) :
                    SubSeq(s, p, p + Len(sep) - 1) = sep}
    IN IF hits = {} THEN 0
       ELSE CHOOSE p \in hits : \A q \in hits : p <= q

\* strings.Split(s, sep)[0]
SplitFirst(s, sep) ==
    Value({ IF p = 0 THEN s ELSE SubSeq(s, 1, p - 1) : p \in {Index(s, sep)} })

RECURSIVE ReplaceAll(_, _, _)
\* strings.ReplaceAll for a non-empty old
ReplaceAll(s, old, new) ==
    IF Len(s) < Len(old) THEN s
    ELSE IF SubSeq(s, 1, Len(old)) = old
         THEN new \o ReplaceAll(SubSeq(s, Len(old) + 1, Len(s)), old, new)
         ELSE <<s[1]>> \o ReplaceAll(Tail(s), old, new)

LowerLetters == <<"a", "b", "c", "d", "e", "f", "g", "h", "i", "j", "k", "l", "m",
                  "n", "o", "p", "q", "r", "s", "t", "u", "v", "w", "x", "y", "z">>
UpperLetters == <<"A", "B", "C", "D", "E", "F", "G", "H", "I", "J", "K", "L", "M",
                  "N", "O", "P", "Q", "R", "S", "T", "U", "V", "W", "X", "Y", "Z">>

\* unicode.ToTitle on the ASCII range
ToUpperChar(c) ==
    IF \E k \in 1..26 : LowerLetters[k] = c
    THEN UpperLetters[CHOOSE k \in 1..26 : LowerLetters[k] = c]
    ELSE c

\* strings.isSeparator: ASCII letters, digits and underscore are word
\* characters, every other ASCII character separates words
isSeparator(c) ==
    ~ \/ \E k \in 1..26 : c = LowerLetters[k] \/ c = UpperLetters[k]
      \/ \E k \in 1..10 : c = Digits[k]
      \/ c = "_"

\* strings.Title: the first letter of every word is mapped to title case
Title(s) ==
    [k \in 1..Len(s) |->
        IF k = 1 \/ isSeparator(s[k - 1]) THEN ToUpperChar(s[k]) ELSE s[k]]

GoExt == <<".", "g", "o">>
ReservedFileName == <<"r", "e", "s", "o", "u", "r", "c", "e", "s">> \o GoExt

----------------------------------------------------------------------------
(* deduplicateFileNames *)

adjustFilename_ZeroBased(Filename, count) ==
    SplitFirst(Filename, GoExt) \o <<"_">> \o Itoa(count - 1) \o GoExt

\* fields := strings.Split(Filename, ".go"); Sprintf("%s_%v.go", fields[0], count)
adjustFilename(Filename, count) ==
    SplitFirst(Filename, GoExt) \o <<"_">> \o Itoa(count) \o GoExt

RECURSIVE scanFileNames(_, _, _, _)
\* the inner loop: sourceFile is the range copy (original name), acc carries
\* count and the name written to sourceFiles[i]
scanFileNames(sourceFile, fileNames, k, acc) ==
    IF k > Len(fileNames) THEN acc
    ELSE IF fileNames[k] = <<>> THEN scanFileNames(sourceFile, fileNames, k + 1, acc)
    ELSE IF sourceFile.Filename = fileNames[k]
         THEN scanFileNames(sourceFile, fileNames, k + 1,
                  [count |-> acc.count + 1,
                   Filename |-> adjustFilename(sourceFile.Filename, acc.count + 1)])
         ELSE scanFileNames(sourceFile, fileNames, k + 1, acc)

\* fileNames[i] = sourceFile.Filename, where sourceFile is the range copy
recordFileName(fileNames, i, sourceFile, adjusted) ==
    [fileNames EXCEPT ![i] = sourceFile.Filename]

RECURSIVE dedupLoop(_, _, _)
\* the outer loop over sourceFiles
dedupLoop(sourceFiles, fileNames, i) ==
    IF i > Len(sourceFiles) THEN sourceFiles
    ELSE Value({ dedupLoop([sourceFiles EXCEPT ![i].Filename = r.Filename],
                           recordFileName(fileNames, i, sourceFiles[i], r.Filename),
                           i + 1) :
                 r \in { scanFileNames(sourceFiles[i], fileNames, 1,
                            [count |-> 0, Filename |-> sourceFiles[i].Filename]) } })

deduplicateFileNames(sourceFiles) ==
    LET fileNames == [k \in 1..(Len(sourceFiles) + 1) |->
                         IF k = Len(sourceFiles) + 1 THEN ReservedFileName ELSE <<>>]
    IN dedupLoop(sourceFiles, fileNames, 1)

----------------------------------------------------------------------------
(* Inputs of the deduplication: candidate filenames *)

Name(stem) == stem \o GoExt

FileNameInputs ==
    { Name(<<"a">>), Name(<<"a", "_", "1">>), Name(<<"a", "_", "2">>),
      ReservedFileName, Name(<<"b">>) }

SeqsUpTo(S, n) == UNION { [1..k -> S] : k \in 1..n }

Filenames(sfs) == [k \in 1..Len(sfs) |-> sfs[k].Filename]

InitDedup ==
    /\ pc = "loaded"
    /\ candidates \in SeqsUpTo(FileNameInputs, MaxFiles)
    /\ SourceFiles = [k \in 1..Len(candidates) |->
                         [Filename |-> candidates[k], Children |-> <<>>]]
    /\ IdleRestOfFiles

DeduplicateFileNames ==
    /\ pc = "loaded"
    /\ SourceFiles' = deduplicateFileNames(SourceFiles)
    /\ pc' = "deduplicated"
    /\ UNCHANGED <<candidates, restOfFiles>>

NextDedup == DeduplicateFileNames

SpecDedup == InitDedup /\ [][NextDedup]_vars

----------------------------------------------------------------------------
(* Claims about deduplicateFileNames *)

\* the name without its trailing .go extension
Stem(name) == SubSeq(name, 1, Len(name) - Len(GoExt))

Suffixed(name, k) == Stem(name) \o <<"_">> \o Itoa(k) \o GoExt

AllSame(s) == \A k \in 1..Len(s) : s[k] = s[1]

PairwiseDistinct(s) == \A i, j \in 1..Len(s) : i # j => s[i] # s[j]

FirstKeptRestNumbered ==
    LET out == Filenames(SourceFiles)
    IN /\ Len(out) = Len(candidates)
       /\ out[1] = candidates[1]
       /\ \A k \in 1..(Len(out) - 1) : out[k + 1] = Suffixed(candidates[1], k)
       /\ PairwiseDistinct(out)

C2_NoDuplicateFilenames ==
    pc = "deduplicated" => PairwiseDistinct(Filenames(SourceFiles))

\* C3: every candidate is checked against the reserved name and against every
\* name already assigned to an earlier file (suffixed names included): a
\* candidate equal to an earlier file's final name does not keep its name,
\* and no file ends up named resources.go.
C3_ChecksAccumulatedNames ==
    pc = "deduplicated" =>
        LET out == Filenames(SourceFiles)
        IN /\ \A i \in 1..Len(out) : \A j \in 1..(i - 1) :
                  out[j] = candidates[i] => out[i] # candidates[i]
           /\ \A i \in 1..Len(out) : out[i] # ReservedFileName

----------------------------------------------------------------------------
(* generateUniqueResourceName *)

StartToken == <<"!", "!", "S", "t", "a", "r", "t">>
EndToken == <<"!", "!", "E", "n", "d">>
ParentSpecToken == <<"P", "a", "r", "e", "n", "t", "S", "p", "e", "c">>
CollectionSpecToken ==
    <<"C", "o", "l", "l", "e", "c", "t", "i", "o", "n", "S", "p", "e", "c">>

\* the chain of ReplaceAll calls applied to the title-cased name or namespace
stripResidue(s) ==
    LET s1 == ReplaceAll(Title(s), <<"-">>, <<>>)
        s2 == ReplaceAll(s1, <<".">>, <<>>)
        s3 == ReplaceAll(s2, <<":">>, <<>>)
        s4 == ReplaceAll(s3, StartToken, <<>>)
        s5 == ReplaceAll(s4, EndToken, <<>>)
        s6 == ReplaceAll(s5, ParentSpecToken, <<>>)
        s7 == ReplaceAll(s6, CollectionSpecToken, <<>>)
    IN ReplaceAll(s7, <<" ">>, <<>>)

\* package kinds: Sprintf("%s%s%s", kind, namespaceName, resourceName)
generateUniqueResourceName(object) ==
    object.kind \o stripResidue(object.namespace) \o stripResidue(object.name)

\* package v1: Sprintf("%s%s", kind, resourceName), the namespace is not read
generateUniqueResourceNameV1(object) ==
    LET r1 == ReplaceAll(Title(object.name), <<"-">>, <<>>)
        r2 == ReplaceAll(r1, <<".">>, <<>>)
        r3 == ReplaceAll(r2, <<":">>, <<>>)
    IN object.kind \o r3

\* Child{Name, UniqueName, Kind} as built by processManifests
NewChild(object, uniqueName) ==
    [Name |-> object.name, UniqueName |-> uniqueName, Kind |-> object.kind]

KindInputs ==
    { <<"C", "o", "n", "f", "i", "g", "M", "a", "p">>,
      <<"S", "e", "c", "r", "e", "t">> }

NamespaceInputs ==
    { <<>>,
      <<"d", "e", "f", "a", "u", "l", "t">>,
      <<"o", "t", "h", "e", "r">>,
      <<"t", "e", "a", "m", "-", "1">>,
      <<"t", "e", "a", "m", "1">>,
      <<"b">> }

NameInputs ==
    { <<"a", "p", "p", "-", "c", "o", "n", "f", "i", "g">>,
      <<"c">>,
      <<"b", "-", "c">>,
      <<"b", ".", "c">>,
      <<"b", ":", "c">>,
      <<"b", "c">> }

ObjectInputs ==
    [kind : KindInputs, namespace : NamespaceInputs, name : NameInputs]

InitNames ==
    /\ pc = "decoded"
    /\ objects \in [1..2 -> ObjectInputs]
    /\ Children = <<>>
    /\ IdleRestOfNames

\* the Child resources of a run of package kinds' processManifests
GenerateUniqueNames ==
    /\ pc = "decoded"
    /\ Children' = [k \in 1..Len(objects) |->
                       NewChild(objects[k], generateUniqueResourceName(objects[k]))]
    /\ pc' = "named"
    /\ UNCHANGED <<objects, restOfNames>>

\* the ChildResources of a run of package v1's processManifests
GenerateUniqueNamesV1 ==
    /\ pc = "decoded"
    /\ Children' = [k \in 1..Len(objects) |->
                       NewChild(objects[k], generateUniqueResourceNameV1(objects[k]))]
    /\ pc' = "namedV1"
    /\ UNCHANGED <<objects, restOfNames>>

NextNames == GenerateUniqueNames \/ GenerateUniqueNamesV1

SpecNames == InitNames /\ [][NextNames]_vars

\* C4: two objects of the same kind and name in different namespaces get
\* different UniqueName values.
C4_NamespaceDistinguishes ==
    (pc \in {"named", "namedV1"}
        /\ objects[1].kind = objects[2].kind
        /\ objects[1].name = objects[2].name
        /\ objects[1].namespace # objects[2].namespace)
    => Children[1].UniqueName # Children[2].UniqueName

\* C5: the UniqueName of package kinds is injective on (kind, namespace,
\* name): objects whose triples differ get different UniqueName values.
C5_Injective ==
    (pc = "named" /\ objects[1] # objects[2])
    => Children[1].UniqueName # Children[2].UniqueName

----------------------------------------------------------------------------
(* APISpecField.setSampleAndDefault *)

FieldString == "string"
FieldInt == "int"
FieldBool == "bool"

\* an interface{} value: a string, an int or a bool
StringValue(s) == [t |-> "string", s |-> s, n |-> 0, b |-> FALSE]
IntValue(n) == [t |-> "int", s |-> <<>>, n |-> n, b |-> FALSE]
BoolValue(b) == [t |-> "bool", s |-> <<>>, n |-> 0, b |-> b]

Quote == "\""
Backslash == "\\"
ColonSpace == <<":", " ">>

\* fmt's %v
FormatV(value) ==
    CASE value.t = "string" -> value.s
      [] value.t = "int" -> IF value.n < 0 THEN <<"-">> \o Itoa(0 - value.n)
                            ELSE Itoa(value.n)
      [] value.t = "bool" -> IF value.b THEN <<"t", "r", "u", "e">>
                             ELSE <<"f", "a", "l", "s", "e">>

RECURSIVE EscapeGo(_)
\* strconv.Quote's escaping of the double quote and the backslash
EscapeGo(s) ==
    IF s = <<>> THEN <<>>
    ELSE IF s[1] = Quote \/ s[1] = Backslash
         THEN <<Backslash, s[1]>> \o EscapeGo(Tail(s))
         ELSE <<s[1]>> \o EscapeGo(Tail(s))

\* fmt's %q of a string value
FormatQ(value) == <<Quote>> \o EscapeGo(value.s) \o <<Quote>>

setSampleAndDefault_NeverQuoted(field, name, value) ==
    [field EXCEPT !.DefaultVal = FormatV(value),
                  !.SampleField = name \o ColonSpace \o FormatV(value)]

setSampleAndDefault(field, name, value) ==
    IF field.DataType = FieldString
    THEN [field EXCEPT !.DefaultVal = FormatQ(value),
                       !.SampleField = name \o ColonSpace \o FormatQ(value)]
    ELSE [field EXCEPT !.DefaultVal = FormatV(value),
                       !.SampleField = name \o ColonSpace \o FormatV(value)]

FieldNameInputs ==
    { <<"r", "e", "p", "l", "i", "c", "a", "s">>, <<"n", "a", "m", "e">>, <<"x">> }

StringValueInputs ==
    { StringValue(<<"w", "i", "d", "g", "e", "t">>), StringValue(<<"3">>),
      StringValue(<<>>), StringValue(<<"a", Quote, "b">>),
      StringValue(<<"a", Backslash, "b">>), StringValue(<<"t", "r", "u", "e">>) }

OtherValueInputs ==
    { IntValue(3), IntValue(0), IntValue(12), IntValue(0 - 1),
      BoolValue(TRUE), BoolValue(FALSE) }

\* a String field is handed a string; the other types are handed the scalar
\* text of the document or a typed default
SampleInputs ==
    { [DataType |-> FieldString, name |-> nm, value |-> v] :
          nm \in FieldNameInputs, v \in StringValueInputs }
    \cup
    { [DataType |-> ty, name |-> nm, value |-> v] :
          ty \in {FieldInt, FieldBool}, nm \in FieldNameInputs,
          v \in StringValueInputs \cup OtherValueInputs }

InitSample ==
    /\ pc = "field"
    /\ \E in \in SampleInputs :
          /\ api = [FieldName |-> in.name, DataType |-> in.DataType,
                    DefaultVal |-> <<>>, SampleField |-> <<>>]
          /\ sampleArgs = [name |-> in.name, value |-> in.value]
    /\ IdleRestOfSample

SetSampleAndDefault ==
    /\ pc = "field"
    /\ api' = setSampleAndDefault(api, sampleArgs.name, sampleArgs.value)
    /\ pc' = "sampled"
    /\ UNCHANGED <<sampleArgs, restOfSample>>

NextSample == SetSampleAndDefault

SpecSample == InitSample /\ [][NextSample]_vars

RECURSIVE Unescape(_)
\* reads a quoted literal's interior back
Unescape(s) ==
    IF s = <<>> THEN <<>>
    ELSE IF s[1] = Backslash /\ Len(s) >= 2
         THEN <<s[2]>> \o Unescape(SubSeq(s, 3, Len(s)))
         ELSE <<s[1]>> \o Unescape(Tail(s))

RECURSIVE NoBareQuote(_)
NoBareQuote(s) ==
    IF s = <<>> THEN TRUE
    ELSE IF s[1] = Backslash THEN Len(s) >= 2 /\ NoBareQuote(SubSeq(s, 3, Len(s)))
    ELSE s[1] # Quote /\ NoBareQuote(Tail(s))

IsQuotedLiteralOf(lit, text) ==
    /\ Len(lit) >= 2
    /\ lit[1] = Quote
    /\ lit[Len(lit)] = Quote
    /\ NoBareQuote(SubSeq(lit, 2, Len(lit) - 1))
    /\ Unescape(SubSeq(lit, 2, Len(lit) - 1)) = text

RECURSIVE ParseNat(_)
ParseNat(s) ==
    IF s = <<>> THEN 0
    ELSE 10 * ParseNat(SubSeq(s, 1, Len(s) - 1))
         + ((CHOOSE k \in 1..10 : Digits[k] = s[Len(s)]) - 1)

IsNaturalLiteralOf(lit, value) ==
    CASE value.t = "string" -> lit = value.s
      [] value.t = "int" ->
            /\ lit # <<>>
            /\ IF lit[1] = "-"
               THEN /\ \A k \in 2..Len(lit) : \E d \in 1..10 : lit[k] = Digits[d]
                    /\ 0 - ParseNat(Tail(lit)) = value.n
               ELSE /\ \A k \in 1..Len(lit) : \E d \in 1..10 : lit[k] = Digits[d]
                    /\ ParseNat(lit) = value.n
      [] value.t = "bool" ->
            lit = (IF value.b THEN <<"t", "r", "u", "e">> ELSE <<"f", "a", "l", "s", "e">>)

C7_WitnessInteger ==
    /\ pc = "sampled"
    /\ api.DataType = FieldInt
    /\ sampleArgs.value = IntValue(3)
    /\ api.SampleField = <<"r", "e", "p", "l", "i", "c", "a", "s", ":", " ", "3">>

----------------------------------------------------------------------------
(* The schema tree and AddField *)

FieldStruct == "struct"

NoValue == [t |-> "nil", s |-> <<>>, n |-> 0, b |-> FALSE]

\* the root built by WorkloadSpec.init
SpecRoot ==
    [Name |-> "Spec", Type |-> FieldStruct, Comments |-> <<>>,
     Default |-> NoValue, Sample |-> NoValue, Children |-> <<>>]

NewField(name, type, comments, sampleVal, defaultFound) ==
    [Name |-> name, Type |-> type, Comments |-> comments,
     Default |-> IF defaultFound THEN sampleVal ELSE NoValue,
     Sample |-> sampleVal, Children |-> <<>>]

ChildIndex(node, name) ==
    IF \E k \in 1..Len(node.Children) : node.Children[k].Name = name
    THEN CHOOSE k \in 1..Len(node.Children) : node.Children[k].Name = name
    ELSE 0

\* the terminal segment: append, or merge with an existing node of the same type
addLeaf(node, k, name, type, comments, sampleVal, defaultFound) ==
    IF k = 0
    THEN [ok |-> TRUE,
          node |-> [node EXCEPT !.Children =
                      Append(@, NewField(name, type, comments, sampleVal, defaultFound))]]
    ELSE IF node.Children[k].Type # type
         THEN [ok |-> FALSE, node |-> node]
         ELSE [ok |-> TRUE,
               node |-> IF node.Children[k].Comments = <<>>
                        THEN [node EXCEPT !.Children[k].Comments = comments]
                        ELSE node]

\* put the result of the insertion below child k back into node
putChild(node, k, sub) ==
    [ok |-> sub.ok,
     node |-> IF ~sub.ok THEN node
              ELSE IF k = 0 THEN [node EXCEPT !.Children = Append(@, sub.node)]
              ELSE [node EXCEPT !.Children[k] = sub.node]]

RECURSIVE AddFieldAt(_, _, _, _, _, _)
\* insert-or-descend along the dotted path; the result is [ok, node]
AddFieldAt(node, path, type, comments, sampleVal, defaultFound) ==
    Value({ IF Len(path) = 1
            THEN addLeaf(node, k, path[1], type, comments, sampleVal, defaultFound)
            ELSE IF k # 0 /\ node.Children[k].Type # FieldStruct
            THEN [ok |-> FALSE, node |-> node]
            ELSE putChild(node, k,
                     AddFieldAt(IF k = 0
                                THEN NewField(path[1], FieldStruct, <<>>, NoValue, FALSE)
                                ELSE node.Children[k],
                                Tail(path), type, comments, sampleVal, defaultFound)) :
            k \in {ChildIndex(node, path[1])} })

\* APIFields.AddField(name, type, comments, sampleVal, defaultFound)
AddField(root, name, type, comments, sampleVal, defaultFound) ==
    AddFieldAt(root, name, type, comments, sampleVal, defaultFound)

----------------------------------------------------------------------------
(* processMarkerResults *)

FieldMarkerKind == "field"
CollectionFieldMarkerKind == "collection"
ResourceMarkerKind == "resource"

\* the sample value and the defaultFound flag chosen for a marker
sampleOf_OriginalFirst(marker) ==
    [sampleVal |-> marker.originalValue, defaultFound |-> FALSE]

sampleOf(marker) ==
    IF marker.Default # NoValue
    THEN [sampleVal |-> marker.Default, defaultFound |-> TRUE]
    ELSE [sampleVal |-> marker.originalValue, defaultFound |-> FALSE]

\* comments := strings.Split(description, "\n") when a description is given
commentsOf(marker) == marker.Description

\* the AddField call of one marker, applied to the accumulator
\* st = [APISpecFields, FieldMarkers, CollectionFieldMarkers, calls, err]
addMarkerField(st, marker, k) ==
    Value({ [st EXCEPT
               !.APISpecFields =
                   AddField(@, marker.Name, marker.Type, commentsOf(marker),
                            sv.sampleVal, sv.defaultFound).node,
               !.calls = Append(@, [src |-> k, name |-> marker.Name,
                                    type |-> marker.Type,
                                    comments |-> commentsOf(marker),
                                    sampleVal |-> sv.sampleVal,
                                    defaultFound |-> sv.defaultFound]),
               !.err = IF AddField(st.APISpecFields, marker.Name, marker.Type,
                                   commentsOf(marker), sv.sampleVal,
                                   sv.defaultFound).ok
                       THEN "nil" ELSE "AddField"] :
            sv \in {sampleOf(marker)} })

\* ws.FieldMarkers / ws.CollectionFieldMarkers = append(..., t)
appendMarker(st, marker) ==
    IF marker.kind = FieldMarkerKind
    THEN [st EXCEPT !.FieldMarkers = Append(@, marker)]
    ELSE [st EXCEPT !.CollectionFieldMarkers = Append(@, marker)]

\* marker.SetForCollection(ws.ForCollection) on the marker appended last
setForCollection(st, marker, forCollection) ==
    IF marker.kind = FieldMarkerKind
    THEN [st EXCEPT !.FieldMarkers[Len(st.FieldMarkers)].forCollection = forCollection]
    ELSE [st EXCEPT !.CollectionFieldMarkers[Len(st.CollectionFieldMarkers)].forCollection
                        = forCollection]

RECURSIVE processMarkerResultsLoop(_, _, _, _)
\* package kinds: every field and collection-field marker is recorded on the
\* WorkloadSpec and added; SetForCollection follows a successful AddField
processMarkerResultsLoop(st, results, k, forCollection) ==
    IF k > Len(results) THEN st
    ELSE IF results[k].kind \notin {FieldMarkerKind, CollectionFieldMarkerKind}
    THEN processMarkerResultsLoop(st, results, k + 1, forCollection)
    ELSE Value({ IF added.err # "nil" THEN added
                 ELSE processMarkerResultsLoop(
                          setForCollection(added, results[k], forCollection),
                          results, k + 1, forCollection) :
                 added \in { addMarkerField(appendMarker(st, results[k]),
                                            results[k], k) } })

processMarkerResults(st, results, forCollection) ==
    processMarkerResultsLoop(st, results, 1, forCollection)

skipsMarker_OtherTypesOnly(marker, coll, collResources) ==
    marker.kind \notin {FieldMarkerKind, CollectionFieldMarkerKind}

\* package v1: the markers the unit does not add to its schema
skipsMarker(marker, coll, collResources) ==
    \/ marker.kind \notin {FieldMarkerKind, CollectionFieldMarkerKind}
    \/ marker.kind = FieldMarkerKind /\ coll /\ ~collResources
    \/ marker.kind = CollectionFieldMarkerKind /\ ~coll

RECURSIVE processMarkerResultsV1Loop(_, _, _, _, _)
\* package v1: field markers are skipped in the pass over a collection's
\* components, collection-field markers outside a collection
processMarkerResultsV1Loop(st, results, k, coll, collResources) ==
    IF k > Len(results) THEN st
    ELSE IF skipsMarker(results[k], coll, collResources)
    THEN processMarkerResultsV1Loop(st, results, k + 1, coll, collResources)
    ELSE Value({ IF added.err # "nil" THEN added
                 ELSE processMarkerResultsV1Loop(added, results, k + 1,
                                                 coll, collResources) :
                 added \in { addMarkerField(st, results[k], k) } })

processMarkerResultsV1(st, results, coll, collResources) ==
    processMarkerResultsV1Loop(st, results, 1, coll, collResources)

MarkerNameInputs == { <<"replicas">>, <<"app", "replicas">> }

MarkerInputs ==
    [kind : {FieldMarkerKind, CollectionFieldMarkerKind},
     Name : MarkerNameInputs,
     Type : {FieldInt, FieldString},
     Description : { <<>>, <<"doc">> },
     Default : { NoValue, StringValue(<<"2">>) },
     originalValue : { StringValue(<<"3">>) },
     forCollection : {FALSE}]
    \cup
    [kind : {ResourceMarkerKind},
     Name : { <<"replicas">> },
     Type : {FieldString},
     Description : { <<>> },
     Default : { NoValue },
     originalValue : { StringValue(<<"3">>) },
     forCollection : {FALSE}]

\* the units a WorkloadSpec is processed for: a standalone workload, a
\* collection's own resources, a component of a collection
UnitInputs == {"standalone", "collection", "component"}

InitMarkers ==
    /\ pc = "inspected"
    /\ markerResults \in UNION { [1..k -> MarkerInputs] : k \in 0..MaxMarkers }
    /\ \E unit \in UnitInputs :
          /\ ForCollection = (unit = "collection")
          /\ collection = (unit # "standalone")
          /\ collectionResources = (unit = "collection")
    /\ APISpecFields = SpecRoot
    /\ FieldMarkers = <<>>
    /\ CollectionFieldMarkers = <<>>
    /\ addFieldCalls = <<>>
    /\ err = "nil"
    /\ IdleRestOfMarkers

MarkerState ==
    [APISpecFields |-> APISpecFields, FieldMarkers |-> FieldMarkers,
     CollectionFieldMarkers |-> CollectionFieldMarkers,
     calls |-> addFieldCalls, err |-> err]

ApplyMarkerState(st) ==
    /\ APISpecFields' = st.APISpecFields
    /\ FieldMarkers' = st.FieldMarkers
    /\ CollectionFieldMarkers' = st.CollectionFieldMarkers
    /\ addFieldCalls' = st.calls
    /\ err' = st.err

ProcessMarkerResults ==
    /\ pc = "inspected"
    /\ ApplyMarkerState(processMarkerResults(MarkerState, markerResults, ForCollection))
    /\ pc' = "processed"
    /\ UNCHANGED <<markerResults, ForCollection, collection, collectionResources,
                   restOfMarkers>>

ProcessMarkerResultsV1 ==
    /\ pc = "inspected"
    /\ ApplyMarkerState(processMarkerResultsV1(MarkerState, markerResults,
                                               collection, collectionResources))
    /\ pc' = "processedV1"
    /\ UNCHANGED <<markerResults, ForCollection, collection, collectionResources,
                   restOfMarkers>>

NextMarkers == ProcessMarkerResults \/ ProcessMarkerResultsV1

SpecMarkers == InitMarkers /\ [][NextMarkers]_vars

\* C8: every AddField call passes the marker's explicit default with
\* defaultFound = TRUE when the marker has one, and otherwise the original
\* literal found at the marker's position with defaultFound = FALSE.
C8_SampleValueOfMarker ==
    pc \in {"processed", "processedV1"} =>
        \A c \in 1..Len(addFieldCalls) :
            LET call == addFieldCalls[c]
                marker == markerResults[call.src]
            IN /\ marker.kind \in {FieldMarkerKind, CollectionFieldMarkerKind}
               /\ call.name = marker.Name
               /\ IF marker.Default # NoValue
                  THEN call.sampleVal = marker.Default /\ call.defaultFound
                  ELSE call.sampleVal = marker.originalValue /\ ~call.defaultFound

C8_Witness ==
    /\ pc \in {"processed", "processedV1"}
    /\ Len(addFieldCalls) = 2
    /\ addFieldCalls[1].defaultFound
    /\ addFieldCalls[1].sampleVal = StringValue(<<"2">>)
    /\ ~addFieldCalls[2].defaultFound
    /\ addFieldCalls[2].sampleVal = StringValue(<<"3">>)

\* the marker results whose field the unit's schema receives
InScope(marker) ==
    \/ marker.kind = FieldMarkerKind /\ (~collection \/ collectionResources)
    \/ marker.kind = CollectionFieldMarkerKind /\ collection

CallSources == { addFieldCalls[c].src : c \in 1..Len(addFieldCalls) }

\* C24: package v1 adds a field for a field marker except in the pass over a
\* collection's components, for a collection-field marker only when the unit
\* belongs to a collection, and for no other marker result; a marker out of
\* scope is skipped without error.
C24_MarkersScopedByUnit ==
    pc = "processedV1" =>
        /\ \A c \in 1..Len(addFieldCalls) : InScope(markerResults[addFieldCalls[c].src])
        /\ \A c, e \in 1..Len(addFieldCalls) :
              c < e => addFieldCalls[c].src < addFieldCalls[e].src
        /\ err = "nil" =>
              CallSources = { k \in 1..Len(markerResults) : InScope(markerResults[k]) }
        /\ (\A k \in 1..Len(markerResults) : ~InScope(markerResults[k])) =>
              err = "nil" /\ APISpecFields = SpecRoot

\* the pass over a collection's components: the field marker adds nothing,
\* the collection-field marker adds its field
C24_Witness ==
    /\ pc = "processedV1"
    /\ collection /\ ~collectionResources
    /\ Len(markerResults) = 2
    /\ markerResults[1].kind = FieldMarkerKind
    /\ markerResults[2].kind = CollectionFieldMarkerKind
    /\ CallSources = {2}
    /\ Len(APISpecFields.Children) = 1

----------------------------------------------------------------------------
(* package kinds: WorkloadSpec.init, processMarkers, processManifests *)

needsCollectionRef_AnyUnit(collectionSet, forCollection) == collectionSet

\* ws.Collection != nil && !ws.ForCollection
needsCollectionRef(collectionSet, forCollection) ==
    collectionSet /\ ~forCollection

\* the synthetic Collection reference field with its Name and Namespace children
CollectionRefField ==
    [Name |-> "Collection", Type |-> FieldStruct, Comments |-> <<>>,
     Default |-> NoValue, Sample |-> NoValue,
     Children |-> << NewField("Name", FieldString, <<>>, NoValue, FALSE),
                     NewField("Namespace", FieldString, <<>>, NoValue, FALSE) >>]

appendCollectionRef(root, collectionSet) ==
    IF ~collectionSet \/ root.Name # "Spec" THEN root
    ELSE [root EXCEPT !.Children = Append(@, CollectionRefField)]

init_KeepSourceFiles(ws, collectionSet, forCollection) ==
    [ws EXCEPT !.APISpecFields =
                   IF needsCollectionRef(collectionSet, forCollection)
                   THEN appendCollectionRef(SpecRoot, collectionSet)
                   ELSE SpecRoot,
               !.RBACRules = <<>>]

\* ws.init(): fresh schema root, rule list and SourceFile list
init(ws, collectionSet, forCollection) ==
    [ws EXCEPT !.APISpecFields =
                   IF needsCollectionRef(collectionSet, forCollection)
                   THEN appendCollectionRef(SpecRoot, collectionSet)
                   ELSE SpecRoot,
               !.RBACRules = <<>>,
               !.SourceFiles = <<>>]

VarParent == "!!var parent"
VarCollection == "!!var collection"

PlaceholderOf(marker) ==
    IF marker.kind = CollectionFieldMarkerKind THEN VarCollection ELSE VarParent

RECURSIVE PlaceholdersOf(_)
PlaceholdersOf(markerSeq) ==
    IF markerSeq = <<>> THEN <<>>
    ELSE <<PlaceholderOf(markerSeq[1])>> \o PlaceholdersOf(Tail(markerSeq))

IsRequested(marker, types) == marker.kind \in types
IsNotRequested(marker, types) == marker.kind \notin types

\* markers.InspectForYAML: the markers of the requested types are reported in
\* document order and replaced by placeholders in the returned nodes
InspectForYAML(content, types) ==
    LET found == SelectSeq(content.markers, LAMBDA m : IsRequested(m, types))
        left == SelectSeq(content.markers, LAMBDA m : IsNotRequested(m, types))
    IN [err |-> IF content.malformed THEN "inspect" ELSE "nil",
        markerResults |-> found,
        nodes |-> [content EXCEPT !.markers = left,
                                  !.placeholders = @ \o PlaceholdersOf(found)]]

\* strings.ReplaceAll(content, "!!var collection", "!!var parent")
replaceCollectionMarkers(content) ==
    [content EXCEPT !.placeholders =
        [k \in 1..Len(@) |-> IF @[k] = VarCollection THEN VarParent ELSE @[k]]]

storeContent_KeepOriginal(ws, m, content) == ws

\* manifestFile.Content = buf.Bytes(): the loaded manifest is overwritten
storeContent(ws, m, content) ==
    [ws EXCEPT !.Manifests[m].Content = content]

\* resources.ProcessManifestError(manifestFile, err)
ProcessManifestError(ws, m, cause) ==
    [ws EXCEPT !.err = cause, !.errFile = ws.Manifests[m].Filename]

\* the buffer processMarkers ends with: as marshalled and as cleaned
produced(ws, marshalled, cleaned) ==
    [ws EXCEPT !.Cleaned = Append(@, [marshalled |-> marshalled.placeholders,
                                      cleaned |-> cleaned.placeholders])]

\* the part of processMarkers after the inspection succeeded
processInspected(ws, m, types, forCollection, insp) ==
    Value({ IF results.err # "nil"
            THEN ProcessManifestError(results, m, results.err)
            ELSE IF FieldMarkerKind \in types /\ CollectionFieldMarkerKind \in types
                 THEN produced(storeContent(results, m,
                                   replaceCollectionMarkers(results.Manifests[m].Content)),
                               insp.nodes, replaceCollectionMarkers(insp.nodes))
                 ELSE produced(results, insp.nodes, insp.nodes) :
            results \in { processMarkerResults(storeContent(ws, m, insp.nodes),
                                               insp.markerResults, forCollection) } })

processMarkers_BareError(ws, m, types, forCollection) ==
    Value({ IF insp.err # "nil" THEN [ws EXCEPT !.err = insp.err]
            ELSE IF insp.nodes.unmarshalable THEN [ws EXCEPT !.err = "marshal"]
            ELSE processInspected(ws, m, types, forCollection, insp) :
            insp \in { InspectForYAML(ws.Manifests[m].Content, types) } })

processMarkers(ws, m, types, forCollection) ==
    Value({ IF insp.err # "nil" THEN ProcessManifestError(ws, m, insp.err)
            \* yaml.Marshal(node) fails
            ELSE IF insp.nodes.unmarshalable
            THEN ProcessManifestError(ws, m, "marshal")
            ELSE processInspected(ws, m, types, forCollection, insp) :
            insp \in { InspectForYAML(ws.Manifests[m].Content, types) } })

\* the verbs on an owned kind and on a kind that is only read
DefaultVerbs == <<"get", "list", "watch", "create", "update", "patch", "delete">>
ReadVerbs == <<"get", "list", "watch">>

VerbsFor(doc) == IF doc.owned THEN DefaultVerbs ELSE ReadVerbs

\* rbac.ForManifest: the rule a decoded object requires
ForManifest(doc) ==
    [Group |-> doc.group, Resource |-> doc.object.kind, Verbs |-> VerbsFor(doc)]

IsVerbOf(verb, verbs) == \E i \in 1..Len(verbs) : verbs[i] = verb
IsNotVerbOf(verb, verbs) == ~IsVerbOf(verb, verbs)

\* the verbs of a rule extended by those of more it does not list yet
unionVerbs(verbs, more) ==
    verbs \o SelectSeq(more, LAMBDA v : IsNotVerbOf(v, verbs))

\* rbac.Rules.Add: one rule per (group, resource), verb sets unioned
RulesAdd(rules, rule) ==
    IF \E k \in 1..Len(rules) :
           rules[k].Group = rule.Group /\ rules[k].Resource = rule.Resource
    THEN [k \in 1..Len(rules) |->
             IF rules[k].Group = rule.Group /\ rules[k].Resource = rule.Resource
             THEN [rules[k] EXCEPT !.Verbs = unionVerbs(@, rule.Verbs)]
             ELSE rules[k]]
    ELSE Append(rules, rule)

processDocument_AppendRule(ws, m, doc, childResources) ==
    IF doc.fails \in {"decode", "rbac"}
    THEN [ws |-> ProcessManifestError(ws, m, doc.fails), childResources |-> childResources]
    ELSE IF doc.fails = "generate"
    THEN [ws |-> ProcessManifestError(
                     [ws EXCEPT !.RBACRules = Append(@, ForManifest(doc))],
                     m, "generate"),
          childResources |-> childResources]
    ELSE [ws |-> [ws EXCEPT !.RBACRules = Append(@, ForManifest(doc))],
          childResources |->
              Append(childResources,
                     NewChild(doc.object, generateUniqueResourceName(doc.object)))]

\* one decoded document: rules, Child, generated source code
processDocument(ws, m, doc, childResources) ==
    IF doc.fails = "decode"
    THEN [ws |-> ProcessManifestError(ws, m, "decode"), childResources |-> childResources]
    ELSE IF doc.fails = "rbac"
    THEN [ws |-> ProcessManifestError(ws, m, "rbac"), childResources |-> childResources]
    ELSE IF doc.fails = "generate"
    THEN [ws |-> ProcessManifestError(
                     [ws EXCEPT !.RBACRules = RulesAdd(@, ForManifest(doc))],
                     m, "generate"),
          childResources |-> childResources]
    ELSE [ws |-> [ws EXCEPT !.RBACRules = RulesAdd(@, ForManifest(doc))],
          childResources |->
              Append(childResources,
                     NewChild(doc.object, generateUniqueResourceName(doc.object)))]

RECURSIVE processDocuments(_, _, _, _, _)
\* the loop over manifestFile.ExtractManifests(); the result carries the
\* children built so far
processDocuments(ws, m, docs, d, childResources) ==
    IF d > Len(docs) THEN [ws |-> ws, childResources |-> childResources]
    ELSE Value({ IF r.ws.err # "nil" THEN r
                 ELSE processDocuments(r.ws, m, docs, d + 1, r.childResources) :
                 r \in { processDocument(ws, m, docs[d], childResources) } })

\* sourceFile.Children = childResources; *ws.SourceFiles = append(...)
appendSourceFile(r, m) ==
    [r.ws EXCEPT !.SourceFiles =
        Append(@, [Filename |-> r.ws.Manifests[m].SourceFilename,
                   Children |-> r.childResources])]

processManifestFile_AppendAlways(marked, m) ==
    appendSourceFile(processDocuments(marked, m, marked.Manifests[m].Content.docs,
                                      1, <<>>), m)

\* the body of the loop over ws.Manifests after processMarkers succeeded
processManifestFile(marked, m) ==
    Value({ IF r.ws.err # "nil" THEN r.ws ELSE appendSourceFile(r, m) :
            r \in { processDocuments(marked, m, marked.Manifests[m].Content.docs,
                                     1, <<>>) } })

RECURSIVE processManifestFiles(_, _, _, _)
\* the loop over ws.Manifests
processManifestFiles(ws, m, types, forCollection) ==
    IF m > Len(ws.Manifests) THEN ws
    ELSE Value({ IF marked.err # "nil" THEN marked
                 ELSE Value({ IF filed.err # "nil" THEN filed
                              ELSE processManifestFiles(filed, m + 1, types,
                                                        forCollection) :
                              filed \in { processManifestFile(marked, m) } }) :
                 marked \in { processMarkers(ws, m, types, forCollection) } })

processManifests(ws, types, collectionSet, forCollection) ==
    Value({ IF done.err # "nil" THEN done
            ELSE [done EXCEPT !.SourceFiles = deduplicateFileNames(@)] :
            done \in { processManifestFiles(init(ws, collectionSet, forCollection),
                                            1, types, forCollection) } })

----------------------------------------------------------------------------
(* package v1: WorkloadSpec.init, processMarkers, processManifests *)

RECURSIVE Split(_, _)
\* strings.Split(s, sep)
Split(s, sep) ==
    Value({ IF p = 0 THEN <<s>>
            ELSE <<SubSeq(s, 1, p - 1)>>
                 \o Split(SubSeq(s, p + Len(sep), Len(s)), sep) :
            p \in {Index(s, sep)} })

coreRBACGroup == <<"c", "o", "r", "e">>

\* the RBAC group of an API group other than the core one
rbacGroupFromGroup(group) == group

versionGroupFromAPIVersion(apiVersion) ==
    Value({ IF Len(apiVersionElements) = 1
            THEN [version |-> apiVersionElements[1], group |-> coreRBACGroup]
            ELSE [version |-> apiVersionElements[2],
                  group |-> rbacGroupFromGroup(apiVersionElements[1])] :
            apiVersionElements \in {Split(apiVersion, <<"/">>)} })

\* RBACRules.addRulesForManifest(kind, group, object)
addRulesForManifest(rules, kind, group, doc) ==
    RulesAdd(rules, [Group |-> group, Resource |-> kind, Verbs |-> VerbsFor(doc)])

\* OwnershipRules.addOrUpdateOwnership(apiVersion, kind, group): one entry per
\* (group, kind); a later version replaces the recorded one in place
addOrUpdateOwnership(rules, apiVersion, kind, group) ==
    IF \E k \in 1..Len(rules) : rules[k].Group = group /\ rules[k].Kind = kind
    THEN [k \in 1..Len(rules) |->
             IF rules[k].Group = group /\ rules[k].Kind = kind
             THEN [rules[k] EXCEPT !.Version = apiVersion]
             ELSE rules[k]]
    ELSE Append(rules, [Group |-> group, Kind |-> kind, Version |-> apiVersion])

\* ws.init() of package v1
initV1(ws) ==
    [ws EXCEPT !.APISpecFields = SpecRoot,
               !.OwnershipRules = <<>>,
               !.RBACRules = <<>>,
               !.SourceFiles = <<>>]

\* formatProcessError(manifestFile, err)
formatProcessError(ws, m, cause) ==
    [ws EXCEPT !.err = cause, !.errFile = ws.Manifests[m].Filename]

processInspectedV1_RewriteComponents(ws, m, coll, collResources, insp) ==
    Value({ IF results.err # "nil"
            THEN [ws |-> formatProcessError(results, m, results.err), manifests |-> <<>>]
            ELSE IF coll /\ ~collResources
            THEN [ws |-> produced(results, insp.nodes, replaceCollectionMarkers(insp.nodes)),
                  manifests |-> replaceCollectionMarkers(insp.nodes).docs]
            ELSE [ws |-> produced(results, insp.nodes, insp.nodes),
                  manifests |-> insp.nodes.docs] :
            results \in { processMarkerResultsV1(ws, insp.markerResults,
                                                 coll, collResources) } })

\* the part of processMarkers after the inspection succeeded: manifestContent
\* is a local buffer, the result is [ws, manifests]
processInspectedV1(ws, m, coll, collResources, insp) ==
    Value({ IF results.err # "nil"
            THEN [ws |-> formatProcessError(results, m, results.err), manifests |-> <<>>]
            ELSE IF coll /\ collResources
            THEN [ws |-> produced(results, insp.nodes, replaceCollectionMarkers(insp.nodes)),
                  manifests |-> replaceCollectionMarkers(insp.nodes).docs]
            ELSE [ws |-> produced(results, insp.nodes, insp.nodes),
                  manifests |-> insp.nodes.docs] :
            results \in { processMarkerResultsV1(ws, insp.markerResults,
                                                 coll, collResources) } })

processMarkersV1(ws, m, coll, collResources) ==
    IF ~ws.Manifests[m].Readable
    THEN [ws |-> formatProcessError(ws, m, "read"), manifests |-> <<>>]
    ELSE Value({ IF insp.err # "nil"
                 THEN [ws |-> formatProcessError(ws, m, insp.err), manifests |-> <<>>]
                 \* yaml.Marshal(node) fails
                 ELSE IF insp.nodes.unmarshalable
                 THEN [ws |-> formatProcessError(ws, m, "marshal"), manifests |-> <<>>]
                 ELSE processInspectedV1(ws, m, coll, collResources, insp) :
                 insp \in { InspectForYAML(ws.Manifests[m].Content,
                                \* InitializeMarkerInspector registers both types
                                {FieldMarkerKind, CollectionFieldMarkerKind}) } })

addRules_AppendOwnership(ws, doc, vg) ==
    [ws EXCEPT !.RBACRules = addRulesForManifest(@, doc.object.kind, vg.group, doc),
               !.OwnershipRules = Append(@, [Group |-> vg.group,
                                             Kind |-> doc.object.kind,
                                             Version |-> doc.apiVersion])]

\* the access and ownership rules of one decoded document
addRules(ws, doc, vg) ==
    [ws EXCEPT !.RBACRules = addRulesForManifest(@, doc.object.kind, vg.group, doc),
               !.OwnershipRules = addOrUpdateOwnership(@, doc.apiVersion,
                                                       doc.object.kind, vg.group)]

\* one decoded document: rules, ChildResource, generated source code
processDocumentV1(ws, m, doc, childResources) ==
    IF doc.fails = "decode"
    THEN [ws |-> formatProcessError(ws, m, "decode"), childResources |-> childResources]
    ELSE Value({ IF doc.fails = "generate"
                 THEN [ws |-> formatProcessError(ruled, m, "generate"),
                       childResources |-> childResources]
                 ELSE [ws |-> ruled,
                       childResources |->
                           Append(childResources,
                                  NewChild(doc.object,
                                           generateUniqueResourceNameV1(doc.object)))] :
                 ruled \in { addRules(ws, doc,
                                 versionGroupFromAPIVersion(doc.apiVersion)) } })

RECURSIVE processDocumentsV1(_, _, _, _, _)
\* the loop over the manifests returned by processMarkers
processDocumentsV1(ws, m, docs, d, childResources) ==
    IF d > Len(docs) THEN [ws |-> ws, childResources |-> childResources]
    ELSE Value({ IF r.ws.err # "nil" THEN r
                 ELSE processDocumentsV1(r.ws, m, docs, d + 1, r.childResources) :
                 r \in { processDocumentV1(ws, m, docs[d], childResources) } })

\* the body of the loop over ws.Resources after processMarkers succeeded
processManifestFileV1(marked, m) ==
    Value({ IF r.ws.err # "nil" THEN r.ws ELSE appendSourceFile(r, m) :
            r \in { processDocumentsV1(marked.ws, m, marked.manifests, 1, <<>>) } })

RECURSIVE processManifestFilesV1(_, _, _, _)
\* the loop over ws.Resources
processManifestFilesV1(ws, m, coll, collResources) ==
    IF m > Len(ws.Manifests) THEN ws
    ELSE Value({ IF marked.ws.err # "nil" THEN marked.ws
                 ELSE Value({ IF filed.err # "nil" THEN filed
                              ELSE processManifestFilesV1(filed, m + 1, coll,
                                                          collResources) :
                              filed \in { processManifestFileV1(marked, m) } }) :
                 marked \in { processMarkersV1(ws, m, coll, collResources) } })

processManifestsV1(ws, coll, collResources) ==
    Value({ IF done.err # "nil" THEN done
            ELSE [done EXCEPT !.SourceFiles = deduplicateFileNames(@)] :
            done \in { processManifestFilesV1(initV1(ws), 1, coll, collResources) } })

----------------------------------------------------------------------------
(* Inputs of processManifests *)

ConfigMapKind == <<"C", "o", "n", "f", "i", "g", "M", "a", "p">>
SecretKind == <<"S", "e", "c", "r", "e", "t">>
AppConfigName == <<"a", "p", "p", "-", "c", "o", "n", "f", "i", "g">>

DeploymentKind == <<"D", "e", "p", "l", "o", "y", "m", "e", "n", "t">>

CoreV1 == <<"v", "1">>
AppsV1 == <<"a", "p", "p", "s", "/", "v", "1">>
AppsV1Beta1 == <<"a", "p", "p", "s", "/", "v", "1", "b", "e", "t", "a", "1">>

\* a document of a manifest: the object it decodes into, its apiVersion,
\* whether the controller owns the kind or only reads it, the stage that
\* fails on it
DocOf(kind, apiVersion, owned, namespace, name, fails) ==
    [object |-> [kind |-> kind, namespace |-> namespace, name |-> name],
     apiVersion |-> apiVersion,
     group |-> versionGroupFromAPIVersion(apiVersion).group,
     owned |-> owned, fails |-> fails]

Doc(kind, namespace, name, fails) ==
    DocOf(kind, CoreV1, TRUE, namespace, name, fails)

DocDefault == Doc(ConfigMapKind, <<"d", "e", "f", "a", "u", "l", "t">>, AppConfigName, "nil")
DocOther == Doc(ConfigMapKind, <<"o", "t", "h", "e", "r">>, AppConfigName, "nil")
DocSecret == Doc(SecretKind, <<>>, <<"c">>, "nil")
DocSecretRead == DocOf(SecretKind, CoreV1, FALSE, <<>>, <<"d">>, "nil")
DocDeployment == DocOf(DeploymentKind, AppsV1, TRUE, <<>>, <<"w">>, "nil")
DocDeploymentBeta == DocOf(DeploymentKind, AppsV1Beta1, TRUE, <<>>, <<"x">>, "nil")

DocSeqInputs ==
    { <<DocDefault>>,
      <<DocDefault, DocOther>>,
      <<DocSecret, Doc(SecretKind, <<>>, <<"b", "c">>, "decode")>>,
      <<Doc(SecretKind, <<>>, <<"c">>, "rbac")>>,
      <<DocSecret, Doc(ConfigMapKind, <<>>, <<"c">>, "generate")>>,
      <<DocSecretRead, DocSecret>>,
      <<DocDeployment, DocDeploymentBeta>> }

Marker(kind, type, description, default) ==
    [kind |-> kind, Name |-> <<"replicas">>, Type |-> type,
     Description |-> description, Default |-> default,
     originalValue |-> StringValue(<<"3">>), forCollection |-> FALSE]

MarkerSeqInputs ==
    { <<>>,
      <<Marker(FieldMarkerKind, FieldInt, <<>>, NoValue)>>,
      <<Marker(CollectionFieldMarkerKind, FieldInt, <<"doc">>, StringValue(<<"2">>))>>,
      <<Marker(FieldMarkerKind, FieldInt, <<>>, NoValue),
        Marker(FieldMarkerKind, FieldString, <<>>, NoValue)>> }

\* contents with markers carry one of two document sequences, contents
\* without markers any of them
ContentInputs ==
    [markers : MarkerSeqInputs,
     docs : { <<DocDefault>>,
              <<DocSecret, Doc(ConfigMapKind, <<>>, <<"c">>, "generate")>> },
     placeholders : { <<>> }, malformed : {FALSE}, unmarshalable : {FALSE}]
    \cup
    [markers : { <<>> }, docs : DocSeqInputs,
     placeholders : { <<>> }, malformed : {FALSE}, unmarshalable : {FALSE}]
    \cup
    [markers : { <<>> }, docs : { <<DocDefault>> },
     placeholders : { <<>> }, malformed : {TRUE}, unmarshalable : {FALSE}]
    \cup
    [markers : { <<>> }, docs : { <<DocDefault>> },
     placeholders : { <<>> }, malformed : {FALSE}, unmarshalable : {TRUE}]

SourceFilenameA == Name(<<"a">>)
SourceFilenameB == Name(<<"b">>)

ManifestInputs ==
    { [Filename |-> "dir1/a.yaml", SourceFilename |-> SourceFilenameA, Content |-> c,
       Readable |-> TRUE] :
          c \in ContentInputs }
    \cup
    { [Filename |-> "dir2/a.yaml", SourceFilename |-> SourceFilenameA,
       Content |-> [markers |-> <<>>, docs |-> <<DocSecret>>,
                    placeholders |-> <<>>, malformed |-> FALSE, unmarshalable |-> FALSE],
       Readable |-> TRUE],
      [Filename |-> "b.yaml", SourceFilename |-> SourceFilenameB,
       Content |-> [markers |-> <<Marker(FieldMarkerKind, FieldInt, <<"doc">>, NoValue)>>,
                    docs |-> <<DocSecret>>,
                    placeholders |-> <<>>, malformed |-> FALSE, unmarshalable |-> FALSE],
       Readable |-> TRUE],
      [Filename |-> "resources.yaml", SourceFilename |-> ReservedFileName,
       Content |-> [markers |-> <<>>, docs |-> <<DocSecret>>,
                    placeholders |-> <<>>, malformed |-> FALSE, unmarshalable |-> FALSE],
       Readable |-> TRUE] }

\* a file ws.Resources lists that ioutil.ReadFile cannot read
UnreadableManifest ==
    [Filename |-> "c.yaml", SourceFilename |-> Name(<<"c">>),
     Content |-> [markers |-> <<>>, docs |-> <<>>, placeholders |-> <<>>,
                  malformed |-> FALSE, unmarshalable |-> FALSE],
     Readable |-> FALSE]

\* package kinds is handed loaded manifests, package v1 the files its
\* Resources list
ManifestsAt(position) ==
    IF position = "loaded" THEN ManifestInputs
    ELSE ManifestInputs \cup {UnreadableManifest}

\* how the workloads call processManifests: a standalone workload asks for
\* field markers, a component and a collection for both marker types
KindUnitInputs ==
    { [hasCollection |-> FALSE, ForCollection |-> FALSE, markerTypes |-> {FieldMarkerKind}],
      [hasCollection |-> TRUE, ForCollection |-> FALSE,
       markerTypes |-> {FieldMarkerKind, CollectionFieldMarkerKind}],
      [hasCollection |-> TRUE, ForCollection |-> TRUE,
       markerTypes |-> {FieldMarkerKind, CollectionFieldMarkerKind}] }

InitKinds ==
    /\ pc \in {"loaded", "listed"}
    /\ Manifests \in UNION { [1..k -> ManifestsAt(pc)] : k \in 1..MaxManifests }
    /\ \E unit \in KindUnitInputs :
          /\ hasCollection = unit.hasCollection
          /\ ForCollection = unit.ForCollection
          /\ markerTypes = unit.markerTypes
    /\ APISpecFields = <<>>
    /\ FieldMarkers = <<>>
    /\ CollectionFieldMarkers = <<>>
    /\ collection = FALSE
    /\ collectionResources = FALSE
    /\ RBACRules = <<>>
    /\ OwnershipRules = <<>>
    /\ Cleaned = <<>>
    /\ SourceFiles = <<>>
    /\ addFieldCalls = <<>>
    /\ err = "nil"
    /\ errFile = ""
    /\ runs = 0
    /\ firstRun = <<>>
    /\ IdleRestOfKinds

KindState ==
    [Manifests |-> Manifests, APISpecFields |-> APISpecFields,
     FieldMarkers |-> FieldMarkers, CollectionFieldMarkers |-> CollectionFieldMarkers,
     RBACRules |-> RBACRules, OwnershipRules |-> OwnershipRules,
     SourceFiles |-> SourceFiles, Cleaned |-> <<>>,
     calls |-> <<>>, err |-> "nil", errFile |-> ""]

\* what a caller reads after a run
Compiled(ws) ==
    [err |-> ws.err,
     Filenames |-> Filenames(ws.SourceFiles),
     UniqueNames |-> [k \in 1..Len(ws.SourceFiles) |->
                         [c \in 1..Len(ws.SourceFiles[k].Children) |->
                             ws.SourceFiles[k].Children[c].UniqueName]],
     APISpecFields |-> ws.APISpecFields]

\* the WorkloadSpec after a run
ApplyKindState(ws) ==
    /\ Manifests' = ws.Manifests
    /\ APISpecFields' = ws.APISpecFields
    /\ FieldMarkers' = ws.FieldMarkers
    /\ CollectionFieldMarkers' = ws.CollectionFieldMarkers
    /\ RBACRules' = ws.RBACRules
    /\ OwnershipRules' = ws.OwnershipRules
    /\ Cleaned' = ws.Cleaned
    /\ SourceFiles' = ws.SourceFiles
    /\ addFieldCalls' = ws.calls
    /\ err' = ws.err
    /\ errFile' = ws.errFile
    /\ firstRun' = IF runs = 0 THEN Compiled(ws) ELSE firstRun

ProcessManifests ==
    /\ pc \in {"loaded", "compiled"}
    /\ runs < MaxRuns
    /\ \E ws \in {processManifests(KindState, markerTypes, hasCollection, ForCollection)} :
          ApplyKindState(ws)
    /\ runs' = runs + 1
    /\ pc' = "compiled"
    /\ UNCHANGED <<markerTypes, hasCollection, ForCollection, collection,
                   collectionResources, restOfKinds>>

\* package v1: processManifests(workloadPath, collection, collectionResources)
ProcessManifestsV1 ==
    /\ pc \in {"listed", "compiledV1"}
    /\ runs < MaxRuns
    /\ \E ws \in {processManifestsV1(KindState, hasCollection, ForCollection)} :
          ApplyKindState(ws)
    /\ collection' = hasCollection
    /\ collectionResources' = ForCollection
    /\ runs' = runs + 1
    /\ pc' = "compiledV1"
    /\ UNCHANGED <<markerTypes, hasCollection, ForCollection, restOfKinds>>

NextKinds == ProcessManifests \/ ProcessManifestsV1

SpecKinds == InitKinds /\ [][NextKinds]_vars

\* C6: a second run of processManifests on the same WorkloadSpec, after a
\* first run that succeeded, yields the same SourceFile filenames in the same
\* order, the same UniqueName values and the same APIField tree.
C6_RepeatableRun ==
    (runs >= 2 /\ firstRun.err = "nil") =>
        Compiled([SourceFiles |-> SourceFiles, APISpecFields |-> APISpecFields,
                  err |-> err]) = firstRun

RunDone == pc \in {"compiled", "compiledV1"}

RECURSIVE AllDocs(_)
\* the documents of the manifest files m, m+1, ... in processing order
AllDocs(m) ==
    IF m > Len(Manifests) THEN <<>>
    ELSE Manifests[m].Content.docs \o AllDocs(m + 1)

PairOf(doc) == <<doc.group, doc.object.kind>>

RulePair(rule) == <<rule.Group, rule.Resource>>

RECURSIVE FirstSeen(_, _)
\* the distinct elements of seq in order of first occurrence, after acc
FirstSeen(seq, acc) ==
    IF seq = <<>> THEN acc
    ELSE IF \E i \in 1..Len(acc) : acc[i] = seq[1]
         THEN FirstSeen(Tail(seq), acc)
         ELSE FirstSeen(Tail(seq), Append(acc, seq[1]))

SeqToSet(seq) == { seq[i] : i \in 1..Len(seq) }

\* the verbs the documents of a (group, resource) pair require
VerbsRequired(pair) ==
    UNION { SeqToSet(VerbsFor(AllDocs(1)[d])) :
              d \in { e \in 1..Len(AllDocs(1)) : PairOf(AllDocs(1)[e]) = pair } }

\* C14: the access rules hold at most one rule per (group, resource), no
\* rule lists a verb twice and, after a run that decoded every document, the
\* rules are in first-seen order with the union of the verbs required.
C14_AccessRulesAggregated ==
    RunDone =>
        /\ PairwiseDistinct([k \in 1..Len(RBACRules) |-> RulePair(RBACRules[k])])
        /\ \A k \in 1..Len(RBACRules) : PairwiseDistinct(RBACRules[k].Verbs)
        /\ err = "nil" =>
              /\ [k \in 1..Len(RBACRules) |-> RulePair(RBACRules[k])]
                    = FirstSeen([d \in 1..Len(AllDocs(1)) |-> PairOf(AllDocs(1)[d])],
                                <<>>)
              /\ \A k \in 1..Len(RBACRules) :
                    SeqToSet(RBACRules[k].Verbs) = VerbsRequired(RulePair(RBACRules[k]))

C14_Witness ==
    /\ pc = "compiled"
    /\ err = "nil"
    /\ Len(Manifests) = 2
    /\ Manifests[1].Content.docs = <<DocSecretRead, DocSecret>>
    /\ Manifests[2].Content.docs = <<DocDeployment, DocDeploymentBeta>>
    /\ Len(RBACRules) = 2
    /\ RBACRules[1].Verbs = DefaultVerbs
    /\ RBACRules[2].Resource = DeploymentKind

OwnershipPair(rule) == <<rule.Group, rule.Kind>>

\* the apiVersion of the last document of a (group, kind) pair
LastVersionSeen(pair) ==
    AllDocs(1)[CHOOSE d \in 1..Len(AllDocs(1)) :
                  /\ PairOf(AllDocs(1)[d]) = pair
                  /\ \A e \in (d + 1)..Len(AllDocs(1)) : PairOf(AllDocs(1)[e]) # pair
              ].apiVersion

\* C15: the ownership rules hold at most one entry per (group, kind); a pair
\* seen again adds no entry and the entry carries the version seen last.
C15_OwnershipAggregated ==
    pc = "compiledV1" =>
        /\ PairwiseDistinct([k \in 1..Len(OwnershipRules) |->
                                OwnershipPair(OwnershipRules[k])])
        /\ err = "nil" =>
              /\ [k \in 1..Len(OwnershipRules) |-> OwnershipPair(OwnershipRules[k])]
                    = FirstSeen([d \in 1..Len(AllDocs(1)) |-> PairOf(AllDocs(1)[d])],
                                <<>>)
              /\ \A k \in 1..Len(OwnershipRules) :
                    OwnershipRules[k].Version
                        = LastVersionSeen(OwnershipPair(OwnershipRules[k]))

C15_Witness ==
    /\ pc = "compiledV1"
    /\ err = "nil"
    /\ Len(Manifests) = 2
    /\ Manifests[1].Content.docs = <<DocDeployment, DocDeploymentBeta>>
    /\ Manifests[2].Content.docs = <<DocSecretRead, DocSecret>>
    /\ Len(OwnershipRules) = 2
    /\ OwnershipRules[1] = [Group |-> <<"a", "p", "p", "s">>, Kind |-> DeploymentKind,
                            Version |-> AppsV1Beta1]

RunFailed == RunDone /\ err # "nil"

\* the manifest file the run stopped at: the one after those that got a
\* SourceFile
FailedAt == Len(SourceFiles) + 1

\* the stages that fail on a document in the package version that ran
DocFailures == IF pc = "compiled" THEN {"decode", "rbac", "generate"}
               ELSE {"decode", "generate"}

FailsOnDocument(m) ==
    \E d \in 1..Len(Manifests[m].Content.docs) :
        Manifests[m].Content.docs[d].fails \in DocFailures

FailsBeforeDocuments(m) ==
    \/ ~Manifests[m].Readable
    \/ Manifests[m].Content.malformed
    \/ Manifests[m].Content.unmarshalable

RECURSIVE DocsUpTo(_)
\* the documents of the manifest files 1..m
DocsUpTo(m) ==
    IF m = 0 THEN <<>> ELSE DocsUpTo(m - 1) \o Manifests[m].Content.docs

\* C16: a failing run stops at the first failing manifest file: the error
\* names that file, the files before it did not fail and each got its
\* SourceFile under its own name (no deduplication), the failing file got
\* none, and no later file was processed.
C16_FailStop ==
    RunFailed =>
        /\ FailedAt <= Len(Manifests)
        /\ errFile = Manifests[FailedAt].Filename
        /\ \A m \in 1..(FailedAt - 1) :
              ~FailsBeforeDocuments(m) /\ ~FailsOnDocument(m)
        /\ err = "read" => ~Manifests[FailedAt].Readable
        /\ err = "inspect" => Manifests[FailedAt].Content.malformed
        /\ err = "marshal" => Manifests[FailedAt].Content.unmarshalable
        /\ err \in DocFailures =>
              \E d \in 1..Len(Manifests[FailedAt].Content.docs) :
                  Manifests[FailedAt].Content.docs[d].fails = err
        /\ Filenames(SourceFiles)
              = [k \in 1..(FailedAt - 1) |-> Manifests[k].SourceFilename]
        /\ \A k \in 1..Len(RBACRules) :
              \E d \in 1..Len(DocsUpTo(FailedAt)) :
                  PairOf(DocsUpTo(FailedAt)[d]) = RulePair(RBACRules[k])
        /\ pc = "compiled" =>
              \A m \in (FailedAt + 1)..Len(Manifests) :
                  Manifests[m].Content.placeholders = <<>>

\* a run that stops at its second file, after a file named resources.go that
\* deduplication would have renamed
C16_Witness ==
    /\ RunFailed
    /\ pc = "compiled"
    /\ Len(Manifests) = 2
    /\ FailedAt = 2
    /\ Manifests[1].SourceFilename = ReservedFileName
    /\ err = "generate"
    /\ Filenames(SourceFiles) = <<ReservedFileName>>

\* two AddField calls give one field name two types
ConflictingCalls ==
    \E c, e \in 1..Len(addFieldCalls) :
        /\ addFieldCalls[c].name = addFieldCalls[e].name
        /\ addFieldCalls[c].type # addFieldCalls[e].type

\* C18: every error processManifests returns names the manifest file being
\* processed, and no stage's failure is dropped: a run returns nil only when
\* no file failed to be read, inspected or marshalled, no document failed to
\* be decoded, given rules or generated, and no marker failed to be added.
C18_ErrorsNameTheFile ==
    RunDone =>
        /\ err # "nil" =>
              \E m \in 1..Len(Manifests) :
                  /\ errFile = Manifests[m].Filename
                  /\ m = FailedAt
        /\ err = "nil" =>
              /\ errFile = ""
              /\ \A m \in 1..Len(Manifests) :
                    ~FailsBeforeDocuments(m) /\ ~FailsOnDocument(m)
              /\ ~ConflictingCalls

\* a marker-result failure in the second file of a run
C18_Witness ==
    /\ RunFailed
    /\ err = "AddField"
    /\ Len(Manifests) = 2
    /\ Manifests[1].Filename = "b.yaml"
    /\ errFile = "dir1/a.yaml"
    /\ ConflictingCalls

\* C19: processMarkers leaves the loaded manifest untouched: whether a run
\* succeeds or fails, every Manifest holds the content it held before.
C19_ManifestUntouched == [][Manifests' = Manifests]_vars

\* the positions of the root's children named Collection
CollectionRefs ==
    { k \in 1..Len(APISpecFields.Children) :
        APISpecFields.Children[k].Name = "Collection" }

\* a Composite with exactly the children Name and Namespace, both String
IsCollectionRef(field) ==
    /\ field.Type = FieldStruct
    /\ [k \in 1..Len(field.Children) |-> field.Children[k].Name]
          = <<"Name", "Namespace">>
    /\ \A k \in 1..Len(field.Children) :
          field.Children[k].Type = FieldString /\ field.Children[k].Children = <<>>

\* C20: the schema root init builds is a Composite named Spec; its first
\* child is the Collection reference field exactly when the unit has a
\* collection and is not the collection's own; init gives it no other child,
\* and the markers add none named Collection.
C20_InitRoot ==
    pc = "compiled" =>
        /\ APISpecFields.Name = "Spec"
        /\ APISpecFields.Type = FieldStruct
        /\ IF hasCollection /\ ~ForCollection
           THEN CollectionRefs = {1} /\ IsCollectionRef(APISpecFields.Children[1])
           ELSE CollectionRefs = {}
        /\ addFieldCalls = <<>> =>
              Len(APISpecFields.Children) = Cardinality(CollectionRefs)

\* a component of a collection whose first manifest fails before any marker
\* is added: the schema is as init left it
C20_Witness ==
    /\ pc = "compiled"
    /\ hasCollection /\ ~ForCollection
    /\ addFieldCalls = <<>>
    /\ Manifests[1].Content.malformed
    /\ APISpecFields.Children = <<CollectionRefField>>

\* a component's schema after its markers were added
C20_WitnessWithMarkers ==
    /\ pc = "compiled"
    /\ hasCollection /\ ~ForCollection
    /\ err = "nil"
    /\ Len(APISpecFields.Children) = 2
    /\ CollectionRefs = {1}

\* the content with every collection-marker token turned into a field-marker token
Rewritten(placeholders) ==
    [k \in 1..Len(placeholders) |->
        IF placeholders[k] = VarCollection THEN VarParent ELSE placeholders[k]]

HasCollectionToken(placeholders) ==
    \E k \in 1..Len(placeholders) : placeholders[k] = VarCollection

\* the unit processes manifests of a component, not the collection's own
ComponentOnlyUnit == ~ForCollection

\* the unit for which the code rewrites: the collection's own manifests in
\* package v1, a call asking for both marker types in package kinds
RewriteUnit ==
    IF pc = "compiled"
    THEN {FieldMarkerKind, CollectionFieldMarkerKind} \subseteq markerTypes
    ELSE hasCollection /\ ForCollection

C25_WitnessKept ==
    /\ pc = "compiledV1"
    /\ hasCollection /\ ~ForCollection
    /\ Len(Cleaned) >= 1
    /\ HasCollectionToken(Cleaned[1].cleaned)

\* WorkloadCollection.GetOwnershipRules: a new empty list, whatever c.Spec holds
GetOwnershipRules(spec) == <<>>

\* c.Spec after SetResources stored the result of the collection's own unit
CollectionSpecStored == [OwnershipRules |-> OwnershipRules, RBACRules |-> RBACRules]

\* C26: the ownership rules GetOwnershipRules hands to the templates of a
\* collection are the rules SetResources accumulated from the collection's
\* manifests and stored in Spec.OwnershipRules.
C26_OwnershipRulesHandedOn ==
    (pc = "compiledV1" /\ hasCollection /\ ForCollection /\ err = "nil") =>
        GetOwnershipRules(CollectionSpecStored) = CollectionSpecStored.OwnershipRules

\* the unique name the package version that ran gives an object
UniqueNameOf(object) ==
    IF pc = "compiled" THEN generateUniqueResourceName(object)
    ELSE generateUniqueResourceNameV1(object)

\* C23: after a successful run SourceFiles holds one SourceFile per manifest
\* file, in input order, whose Children are the file's documents in document
\* order; a second run leaves nothing of the first (the lists are not
\* extended, the rules are those of one pass over the documents).
C23_OneSourceFilePerManifest ==
    (RunDone /\ err = "nil") =>
        /\ Len(SourceFiles) = Len(Manifests)
        /\ \A k \in 1..Len(SourceFiles) :
              SourceFiles[k].Children
                  = [d \in 1..Len(Manifests[k].Content.docs) |->
                        NewChild(Manifests[k].Content.docs[d].object,
                                 UniqueNameOf(Manifests[k].Content.docs[d].object))]
        /\ Len(RBACRules) <= Len(AllDocs(1))
        /\ Len(OwnershipRules) <= Len(AllDocs(1))
        /\ Len(APISpecFields.Children) <= Cardinality(CollectionRefs) + Len(addFieldCalls)

\* a second successful run over two files with two documents each
C23_Witness ==
    /\ pc = "compiled"
    /\ err = "nil"
    /\ runs = 2
    /\ Len(Manifests) = 2
    /\ Len(SourceFiles) = 2
    /\ Len(SourceFiles[1].Children) = 2
    /\ SourceFiles[1].Children[1].Name = DocSecretRead.object.name
    /\ SourceFiles[1].Children[2].Name = DocSecret.object.name

----------------------------------------------------------------------------
(* WorkloadCollection.SetResources: the schema merge *)

\* a *APISpecField: unit u's k-th field record
Ref(u, k) == <<u, k>>
Record(records, ref) == records[ref[1]][ref[2]]

appendIfAbsent_Always(specFields, fieldPresent, csf) == Append(specFields, csf)

\* if !fieldPresent { specFields = append(specFields, csf) }
appendIfAbsent(specFields, fieldPresent, csf) ==
    IF fieldPresent THEN specFields ELSE Append(specFields, csf)

\* if len(csf.DocumentationLines) > 0 { specFields[i].DocumentationLines = ... }
backfill(records, sf, csf) ==
    IF Len(Record(records, csf).DocumentationLines) > 0
    THEN [records EXCEPT ![sf[1]][sf[2]].DocumentationLines =
                             Record(records, csf).DocumentationLines]
    ELSE records

RECURSIVE scanSpecFields(_, _, _, _)
\* the loop over specFields for one component field csf;
\* acc = [records, fieldPresent]
scanSpecFields(specFields, csf, i, acc) ==
    IF i > Len(specFields) THEN acc
    ELSE IF Record(acc.records, specFields[i]).FieldName
                = Record(acc.records, csf).FieldName
         THEN scanSpecFields(specFields, csf, i + 1,
                  [records |-> backfill(acc.records, specFields[i], csf),
                   fieldPresent |-> TRUE])
         ELSE scanSpecFields(specFields, csf, i + 1, acc)

RECURSIVE mergeComponentFields(_, _, _)
\* the loop over componentResources.SpecFields of component unit u;
\* st = [specFields, records, err]
mergeComponentFields(st, u, k) ==
    IF k > Len(st.records[u]) THEN st
    ELSE Value({ mergeComponentFields(
                     [st EXCEPT !.specFields = appendIfAbsent(@, r.fieldPresent,
                                                              Ref(u, k)),
                                !.records = r.records],
                     u, k + 1) :
                 r \in { scanSpecFields(st.specFields, Ref(u, k), 1,
                             [records |-> st.records, fieldPresent |-> FALSE]) } })

RECURSIVE mergeComponents(_, _, _)
\* the loop over c.Spec.Components; units[1] is the collection, units[u] for
\* u > 1 a component; st = [specFields, records, err]
mergeComponents(st, units, u) ==
    IF u > Len(units) THEN st
    ELSE IF units[u].err THEN [st EXCEPT !.err = "processMarkers"]
    ELSE mergeComponents(mergeComponentFields(st, u, 1), units, u + 1)

\* *resources.SourceFiles, *resources.RBACRules, *resources.OwnershipRules of
\* the result returned for unit u; unit 0 stands for what c.Spec held before
SourceFilesOf(u) == <<"SourceFiles", u>>
RBACRulesOf(u) == <<"RBACRules", u>>
OwnershipRulesOf(u) == <<"OwnershipRules", u>>

collectionSpecFields_Reversed(records) ==
    [k \in 1..Len(records[1]) |-> Ref(1, Len(records[1]) + 1 - k)]

\* specFields := resources.SpecFields
collectionSpecFields(records) == [k \in 1..Len(records[1]) |-> Ref(1, k)]

\* SetResources on spec (c.Spec); the result is [spec, records, err]
SetResources(spec, units, records) ==
    IF units[1].err
    THEN [spec |-> spec, records |-> records, err |-> "processMarkers"]
    ELSE Value({ [spec |-> IF st.err # "nil"
                           THEN [spec EXCEPT
                                    !.SourceFiles = SourceFilesOf(1),
                                    !.RBACRules = RBACRulesOf(1),
                                    !.OwnershipRules = OwnershipRulesOf(1)]
                           ELSE [spec EXCEPT
                                    !.SourceFiles = SourceFilesOf(1),
                                    !.RBACRules = RBACRulesOf(1),
                                    !.OwnershipRules = OwnershipRulesOf(1),
                                    !.APISpecFields = st.specFields],
                  records |-> st.records,
                  err |-> st.err] :
                 st \in { mergeComponents(
                              [specFields |-> collectionSpecFields(records),
                               records |-> records, err |-> "nil"],
                              units, 2) } })

NoDoc == <<>>
DocA == <<"Request timeout">>
DocB == <<"Timeout of a request", "in seconds">>

Field(name, doc) == [FieldName |-> name, DocumentationLines |-> doc]

TimeoutFields == { Field("timeout", doc) : doc \in {NoDoc, DocA, DocB} }
ReplicasFields == { Field("replicas", doc) : doc \in {NoDoc, DocA} }

\* the SpecFields one unit's processMarkers returns; the last one names
\* timeout twice
SpecFieldsInputs ==
    { <<>> }
    \cup { <<f>> : f \in TimeoutFields \cup ReplicasFields }
    \cup { <<f, g>> : f \in TimeoutFields, g \in ReplicasFields }
    \cup { <<g, f>> : f \in TimeoutFields, g \in ReplicasFields }
    \cup { <<Field("timeout", DocA), Field("timeout", NoDoc)>> }

\* the value processMarkers returns for one unit
UnitResult(failed, specFields) == [err |-> failed, SpecFields |-> specFields]

UnitResultInputs ==
    { UnitResult(FALSE, fs) : fs \in SpecFieldsInputs }
    \cup { UnitResult(TRUE, <<>>) }


InitMerge ==
    /\ pc = "loaded"
    /\ \E n \in 1..(MaxComponents + 1) : unitResults \in [1..n -> UnitResultInputs]
    /\ fieldRecords = [u \in 1..Len(unitResults) |-> unitResults[u].SpecFields]
    /\ cSpec = [SourceFiles |-> SourceFilesOf(0), RBACRules |-> RBACRulesOf(0),
                OwnershipRules |-> OwnershipRulesOf(0), APISpecFields |-> <<>>]
    /\ setErr = "nil"
    /\ IdleRestOfMerge

CollectionSetResources ==
    /\ pc = "loaded"
    /\ \E r \in { SetResources(cSpec, unitResults, fieldRecords) } :
          /\ cSpec' = r.spec
          /\ fieldRecords' = r.records
          /\ setErr' = r.err
    /\ pc' = "merged"
    /\ UNCHANGED <<unitResults, restOfMerge>>

NextMerge == CollectionSetResources

SpecMerge == InitMerge /\ [][NextMerge]_vars

\* the merged field list as records
MergedFields == [k \in 1..Len(cSpec.APISpecFields) |->
                    Record(fieldRecords, cSpec.APISpecFields[k])]

MergedNames == [k \in 1..Len(MergedFields) |-> MergedFields[k].FieldName]

NamesOf(fields) == { fields[k].FieldName : k \in 1..Len(fields) }

SourceNames == UNION { NamesOf(unitResults[u].SpecFields) : u \in 1..Len(unitResults) }

MergeDone == pc = "merged" /\ setErr = "nil"

FieldNames(fields) == [k \in 1..Len(fields) |-> fields[k].FieldName]

\* no source list names a field twice
NoRepeatedFieldName ==
    \A u \in 1..Len(unitResults) :
        PairwiseDistinct(FieldNames(unitResults[u].SpecFields))

\* C9: when no source list repeats a FieldName, the merged APISpecFields
\* repeats none, and every field name of a source appears exactly once.
C9_MergedNamesUnique ==
    (MergeDone /\ NoRepeatedFieldName) =>
        /\ PairwiseDistinct(MergedNames)
        /\ \A n \in SourceNames :
              Cardinality({ k \in 1..Len(MergedNames) : MergedNames[k] = n }) = 1

C9_Witness ==
    /\ MergeDone
    /\ NoRepeatedFieldName
    /\ Len(unitResults) = 3
    /\ \A u \in 1..3 : "timeout" \in NamesOf(unitResults[u].SpecFields)
    /\ "replicas" \in NamesOf(unitResults[3].SpecFields)
    /\ "replicas" \notin NamesOf(unitResults[1].SpecFields)
    /\ Len(MergedNames) = 2

\* the non-empty documentation a field name carries in the sources, in source
\* order (collection first, then the components in order)
RECURSIVE DocsOfName(_, _)
DocsOfName(n, u) ==
    IF u > Len(unitResults) THEN <<>>
    ELSE SelectSeq([k \in 1..Len(unitResults[u].SpecFields) |->
                       IF unitResults[u].SpecFields[k].FieldName = n
                       THEN unitResults[u].SpecFields[k].DocumentationLines
                       ELSE NoDoc],
                   LAMBDA d : d # NoDoc)
         \o DocsOfName(n, u + 1)

\* C10: the merged field keeps the first non-empty documentation encountered
\* for its name; a later non-empty documentation does not replace it.
C10_FirstDocumentationWins ==
    (MergeDone /\ NoRepeatedFieldName) =>
        \A k \in 1..Len(MergedFields) :
            DocsOfName(MergedFields[k].FieldName, 1) # <<>> =>
                MergedFields[k].DocumentationLines
                    = DocsOfName(MergedFields[k].FieldName, 1)[1]

Min(S) == CHOOSE x \in S : \A y \in S : x <= y

Units == 1..Len(unitResults)

\* the documentation unit u's result gives field n; NoDoc when u has no such
\* field
UnitDoc(u, n) ==
    IF n \in NamesOf(unitResults[u].SpecFields)
    THEN unitResults[u].SpecFields[
             Min({ k \in 1..Len(unitResults[u].SpecFields) :
                     unitResults[u].SpecFields[k].FieldName = n })].DocumentationLines
    ELSE NoDoc

\* the documentation of the merged field named n
MergedDoc(n) ==
    MergedFields[Min({ k \in 1..Len(MergedFields) :
                         MergedFields[k].FieldName = n })].DocumentationLines

Definers(n) == { u \in Units : n \in NamesOf(unitResults[u].SpecFields) }

Documenters(n) == { u \in Units : UnitDoc(u, n) # NoDoc }

\* documentation is never lost to a unit that defines the field without any:
\* a documented field ends with the documentation of one of its documenters
KeepsDocumentation ==
    \A n \in SourceNames :
        Documenters(n) # {} =>
            MergedDoc(n) \in { UnitDoc(u, n) : u \in Documenters(n) }

\* a field first defined without documentation receives that of the first
\* later unit that has some
BackfillsFirstLater ==
    \A n \in SourceNames :
        (UnitDoc(Min(Definers(n)), n) = NoDoc /\ Documenters(n) # {}) =>
            MergedDoc(n) = UnitDoc(Min(Documenters(n)), n)

\* C11: a merged field with non-empty documentation keeps it when a later
\* component defines the same field with no documentation, and a merged field
\* with no documentation receives the documentation of the first later
\* component that has some.
C11_KeepAndBackfill ==
    (MergeDone /\ NoRepeatedFieldName) =>
        (KeepsDocumentation /\ BackfillsFirstLater)

RECURSIVE FirstDiscovery(_, _, _)
\* the references in order of first discovery: acc, then every field of the
\* units u, u+1, ... (from field k of unit u on) whose name acc does not hold
FirstDiscovery(acc, u, k) ==
    IF u > Len(unitResults) THEN acc
    ELSE IF k > Len(unitResults[u].SpecFields) THEN FirstDiscovery(acc, u + 1, 1)
    ELSE IF \E i \in 1..Len(acc) :
                unitResults[acc[i][1]].SpecFields[acc[i][2]].FieldName
                    = unitResults[u].SpecFields[k].FieldName
         THEN FirstDiscovery(acc, u, k + 1)
         ELSE FirstDiscovery(Append(acc, <<u, k>>), u, k + 1)

\* C12: the merged list is the collection's own fields in their order, then
\* each not-yet-present component field in component order and, within a
\* component, in that component's field order.
C12_FirstDiscoveryOrder ==
    MergeDone =>
        cSpec.APISpecFields
            = FirstDiscovery([k \in 1..Len(unitResults[1].SpecFields) |-> <<1, k>>],
                             2, 1)

C12_Witness ==
    /\ MergeDone
    /\ Len(unitResults) = 3
    /\ FieldNames(unitResults[1].SpecFields) = <<"timeout">>
    /\ FieldNames(unitResults[2].SpecFields) = <<"replicas", "timeout">>
    /\ FieldNames(unitResults[3].SpecFields) = <<"replicas">>
    /\ MergedNames = <<"timeout", "replicas">>
    /\ cSpec.APISpecFields[2] = <<2, 1>>

\* C13: SetResources modifies no field record of the per-unit results it
\* reads, and the merged list is made of new records.
C13_SourceRecordsUnchanged ==
    MergeDone =>
        fieldRecords = [u \in Units |-> unitResults[u].SpecFields]

\* c.Spec as it was before SetResources was called
SpecBefore ==
    [SourceFiles |-> SourceFilesOf(0), RBACRules |-> RBACRulesOf(0),
     OwnershipRules |-> OwnershipRulesOf(0), APISpecFields |-> <<>>]

\* C17: when SetResources returns an error, c.Spec's SourceFiles, RBACRules,
\* OwnershipRules and APISpecFields are what they were before the call.
C17_NoPartialResult ==
    (pc = "merged" /\ setErr # "nil") => cSpec = SpecBefore

----------------------------------------------------------------------------
(* WorkloadCollection.Validate and SetNames (package v1), package utils *)

MaxNameLen == 3

\* strings.ToLower on the ASCII range
ToLowerChar(ch) ==
    IF \E k \in 1..26 : UpperLetters[k] = ch
    THEN LowerLetters[CHOOSE k \in 1..26 : UpperLetters[k] = ch]
    ELSE ch

ToLower(s) == [k \in 1..Len(s) |-> ToLowerChar(s[k])]

RECURSIVE toPascalLoop(_, _, _)
\* the loop of ToPascalCase over the letters of name; st = [output, makeUpper]
toPascalLoop(name, k, st) ==
    IF k > Len(name) THEN st.output
    ELSE IF st.makeUpper
         THEN toPascalLoop(name, k + 1,
                  [output |-> st.output \o <<ToUpperChar(name[k])>>,
                   makeUpper |-> FALSE])
         ELSE IF name[k] = "-"
              THEN toPascalLoop(name, k + 1, [st EXCEPT !.makeUpper = TRUE])
              ELSE toPascalLoop(name, k + 1,
                       [st EXCEPT !.output = @ \o <<name[k]>>])

ToPascalCase(name) == toPascalLoop(name, 1, [output |-> <<>>, makeUpper |-> TRUE])

ToFileName(name) == ToLower(ReplaceAll(name, <<"-">>, <<"_">>))

ToPackageName(name) == ToLower(ReplaceAll(name, <<"-">>, <<>>))

HasRootCmdName(coll) == coll.Spec.CompanionCliRootcmd.Name # <<>>

\* WorkloadCollection.SetNames
SetNames(coll) ==
    Value({ IF HasRootCmdName(coll)
            THEN [named EXCEPT
                    !.Spec.CompanionCliRootcmd.VarName =
                        ToPascalCase(coll.Spec.CompanionCliRootcmd.Name),
                    !.Spec.CompanionCliRootcmd.FileName =
                        ToFileName(coll.Spec.CompanionCliRootcmd.Name),
                    !.Spec.CompanionCliSubcmd.VarName =
                        ToPascalCase(coll.Spec.CompanionCliSubcmd.Name),
                    !.Spec.CompanionCliSubcmd.FileName =
                        ToFileName(coll.Spec.CompanionCliSubcmd.Name)]
            ELSE named :
            named \in { [coll EXCEPT !.PackageName = ToPackageName(coll.Name)] } })

RECURSIVE JoinTokens(_, _)
JoinTokens(list, sep) ==
    IF list = <<>> THEN <<>>
    ELSE IF Len(list) = 1 THEN list
    ELSE <<list[1], sep>> \o JoinTokens(Tail(list), sep)

\* fmt.Sprintf("Missing required fields: %s", missingFields): the message as
\* the pieces fmt writes, a []string being written as [a b c]
FormatMissing(missingFields) ==
    <<"Missing required fields: ", "[">> \o JoinTokens(missingFields, " ") \o <<"]">>

appendMissing_StopAtFirst(missingFields, value, name) ==
    IF value = <<>> /\ missingFields = <<>> THEN Append(missingFields, name)
    ELSE missingFields

\* if value == "" { missingFields = append(missingFields, name) }
appendMissing(missingFields, value, name) ==
    IF value = <<>> THEN Append(missingFields, name) ELSE missingFields

\* WorkloadCollection.Validate; the result is [c, err]
Validate(coll) ==
    Value({ [c |-> coll,
             err |-> IF Len(missingFields) > 0 THEN FormatMissing(missingFields)
                     ELSE "nil"] :
            missingFields \in {
                appendMissing(
                  appendMissing(
                    appendMissing(
                      appendMissing(
                        appendMissing(<<>>, coll.Name, "name"),
                        coll.Spec.API.Domain, "spec.api.domain"),
                      coll.Spec.API.Group, "spec.api.group"),
                    coll.Spec.API.Version, "spec.api.version"),
                  coll.Spec.API.Kind, "spec.api.kind") } })

NameLetters == {"a", "B", "-"}

\* the command names: every string over NameLetters up to MaxNameLen letters
CommandNameInputs == UNION { [1..n -> NameLetters] : n \in 0..MaxNameLen }

FieldInputs == { <<>>, <<"x">> }

CliCommand(name) == [Name |-> name, VarName |-> <<>>, FileName |-> <<>>]

CollectionInputs ==
    { [Name |-> name, PackageName |-> <<>>,
       Spec |-> [API |-> [Domain |-> domain, Group |-> group,
                          Version |-> version, Kind |-> kind],
                 CompanionCliRootcmd |-> CliCommand(rootcmd),
                 CompanionCliSubcmd |-> CliCommand(subcmd)]] :
        name \in {<<>>, <<"m", "y", "-", "A", "p", "p">>},
        domain \in FieldInputs, group \in FieldInputs,
        version \in FieldInputs, kind \in FieldInputs,
        rootcmd \in CommandNameInputs,
        subcmd \in {<<>>, <<"a", "-", "B">>} }

InitColl ==
    /\ pc = "decoded"
    /\ workloadCollection \in CollectionInputs
    /\ validateErr = "nil"
    /\ IdleRestOfColl

CollectionValidate ==
    /\ pc = "decoded"
    /\ \E r \in { Validate(workloadCollection) } :
          /\ workloadCollection' = r.c
          /\ validateErr' = r.err
    /\ pc' = "validated"
    /\ UNCHANGED restOfColl

CollectionSetNames ==
    /\ pc \in {"decoded", "validated"}
    /\ workloadCollection' = SetNames(workloadCollection)
    /\ pc' = "named"
    /\ UNCHANGED <<validateErr, restOfColl>>

NextColl == CollectionValidate \/ CollectionSetNames

SpecColl == InitColl /\ [][NextColl]_vars

\* the required fields of a collection in the order Validate reports them
RequiredFields ==
    << <<"name", workloadCollection.Name>>,
       <<"spec.api.domain", workloadCollection.Spec.API.Domain>>,
       <<"spec.api.group", workloadCollection.Spec.API.Group>>,
       <<"spec.api.version", workloadCollection.Spec.API.Version>>,
       <<"spec.api.kind", workloadCollection.Spec.API.Kind>> >>

IsEmptyField(field) == field[2] = <<>>

MissingFields ==
    Value({ [k \in 1..Len(missing) |-> missing[k][1]] :
            missing \in { SelectSeq(RequiredFields, IsEmptyField) } })

IsFieldToken(token) == token \notin {"Missing required fields: ", "[", "]", " "}

\* the field names an error message of Validate lists, in message order
ListedFields(message) == SelectSeq(message, IsFieldToken)

\* C22: Validate returns an error exactly when one of name, spec.api.domain,
\* spec.api.group, spec.api.version, spec.api.kind is empty; the error lists
\* every missing field in that order; Validate changes nothing on the
\* collection.
C22_ValidateRequiredFields ==
    /\ [](pc = "validated" =>
            /\ validateErr = "nil" <=> MissingFields = <<>>
            /\ validateErr # "nil" => ListedFields(validateErr) = MissingFields)
    /\ [][pc' = "validated" => workloadCollection' = workloadCollection]_vars

C22_Witness ==
    /\ pc = "validated"
    /\ validateErr # "nil"
    /\ ListedFields(validateErr) = <<"name", "spec.api.kind">>

IsHyphen(ch) == ch = "-"

\* a kebab-case name: non-empty hyphen-free segments joined by single hyphens
WellFormedKebab(name) ==
    \A k \in 1..Len(Split(name, <<"-">>)) : Split(name, <<"-">>)[k] # <<>>

RECURSIVE CapitalisedSegments(_)
CapitalisedSegments(segments) ==
    IF segments = <<>> THEN <<>>
    ELSE <<ToUpperChar(segments[1][1])>> \o Tail(segments[1])
         \o CapitalisedSegments(Tail(segments))

IsPascalOf(varName, name) ==
    /\ WellFormedKebab(name) =>
          varName = CapitalisedSegments(Split(name, <<"-">>))
    /\ SelectSeq(varName, IsHyphen) = <<>>

\* C28: for a name of non-empty hyphen-free segments joined by single
\* hyphens ToPascalCase yields the segments with their first letter
\* upper-cased, concatenated; for every name the result holds no hyphen.
C28_PascalCase ==
    (pc = "named" /\ HasRootCmdName(workloadCollection)) =>
        /\ IsPascalOf(workloadCollection.Spec.CompanionCliRootcmd.VarName,
                      workloadCollection.Spec.CompanionCliRootcmd.Name)
        /\ workloadCollection.Spec.CompanionCliSubcmd.Name # <<>> =>
              IsPascalOf(workloadCollection.Spec.CompanionCliSubcmd.VarName,
                         workloadCollection.Spec.CompanionCliSubcmd.Name)

\* the first half of C28 alone: well-formed names
C28_WellFormedNames ==
    (pc = "named" /\ HasRootCmdName(workloadCollection)
       /\ WellFormedKebab(workloadCollection.Spec.CompanionCliRootcmd.Name)) =>
        workloadCollection.Spec.CompanionCliRootcmd.VarName =
            CapitalisedSegments(
                Split(workloadCollection.Spec.CompanionCliRootcmd.Name, <<"-">>))

----------------------------------------------------------------------------
(* apiScaffolder.Scaffold and scaffoldCLI (plugins/workload/v1/scaffolds) *)

\* more scaffold.Execute calls than one Scaffold run makes
MaxCalls == 32

Step(template, w, k) == [template |-> template, workload |-> w, file |-> k]

\* one scaffold.Execute call followed by `if err != nil { return ... }`: once
\* st.err is set the function has returned and nothing more is executed;
\* the call number failAt fails
Execute(st, step, failAt) ==
    IF st.err # "nil" THEN st
    ELSE IF st.calls + 1 = failAt
         THEN [st EXCEPT !.calls = @ + 1, !.err = step.template]
         ELSE [st EXCEPT !.calls = @ + 1, !.executed = Append(@, step)]

RECURSIVE scaffoldDefinitions(_, _, _, _, _)
\* for _, sourceFile := range *workload.GetSourceFiles(): resources.Definition
scaffoldDefinitions(st, w, n, k, failAt) ==
    IF k > n THEN st
    ELSE scaffoldDefinitions(Execute(st, Step("Definition", w, k), failAt),
                             w, n, k + 1, failAt)

\* the API files and the end to end tests of one workload
scaffoldAPI(st, w, failAt) ==
    Execute(Execute(st, Step("Types", w, 0), failAt), Step("E2ETest", w, 0), failAt)

RECURSIVE scaffoldComponents(_, _, _, _)
\* for _, component := range s.workload.GetComponents()
scaffoldComponents(st, components, i, failAt) ==
    IF i > Len(components) THEN st
    ELSE scaffoldComponents(
             scaffoldDefinitions(scaffoldAPI(st, i, failAt),
                                 i, components[i].SourceFiles, 1, failAt),
             components, i + 1, failAt)

scaffoldsGenerate_Always(workloadCommand) == TRUE

\* the generate command is scaffolded unless we have a collection without resources
scaffoldsGenerate(workloadCommand) ==
    \/ workloadCommand.HasChildResources /\ workloadCommand.IsCollection
    \/ ~workloadCommand.IsCollection

\* the body of the loop over workloadCommands
scaffoldCommand(st, workloadCommand, w, failAt) ==
    Value({ Execute(Execute(generated, Step("CmdVersionSub", w, 0), failAt),
                    Step("CmdRootUpdater", w, 0), failAt) :
            generated \in {
                IF scaffoldsGenerate(workloadCommand)
                THEN Execute(Execute(st, Step("CmdInitSub", w, 0), failAt),
                             Step("CmdGenerateSub", w, 0), failAt)
                ELSE Execute(st, Step("CmdInitSub", w, 0), failAt) } })

RECURSIVE scaffoldCommands(_, _, _, _)
\* for _, workloadCommand := range workloadCommands; workloadCommands[1] is
\* the parent (workload 0), workloadCommands[i + 1] component i
scaffoldCommands(st, workloadCommands, k, failAt) ==
    IF k > Len(workloadCommands) THEN st
    ELSE scaffoldCommands(scaffoldCommand(st, workloadCommands[k], k - 1, failAt),
                          workloadCommands, k + 1, failAt)

scaffoldCLI(st, sc, failAt) ==
    scaffoldCommands(Execute(st, Step("CmdUtils", 0, 0), failAt),
                     <<sc.workload>> \o sc.workload.Components, 1, failAt)

\* apiScaffolder.Scaffold; the result is [executed, err, calls]
Scaffold(sc, failAt) ==
    Value({ IF sc.cliRootCommandName # "" THEN scaffoldCLI(apis, sc, failAt)
            ELSE apis :
            apis \in {
                scaffoldDefinitions(
                    IF sc.workload.IsCollection
                    THEN scaffoldComponents(
                             scaffoldAPI([executed |-> <<>>, err |-> "nil", calls |-> 0],
                                         0, failAt),
                             sc.workload.Components, 1, failAt)
                    ELSE scaffoldAPI([executed |-> <<>>, err |-> "nil", calls |-> 0],
                                     0, failAt),
                    0, sc.workload.SourceFiles, 1, failAt) } })

ComponentInputs ==
    { [IsCollection |-> FALSE, HasChildResources |-> h, SourceFiles |-> n,
       Components |-> <<>>] : h \in BOOLEAN, n \in 0..1 }

WorkloadInputs ==
    ComponentInputs
    \cup { [IsCollection |-> TRUE, HasChildResources |-> h, SourceFiles |-> n,
            Components |-> cs] :
             h \in BOOLEAN, n \in 0..1,
             cs \in UNION { [1..k -> ComponentInputs] : k \in 0..MaxComponents } }

InitScaff ==
    /\ pc = "injected"
    /\ scaffolder \in { [workload |-> w, cliRootCommandName |-> n] :
                           w \in WorkloadInputs, n \in {"", "ctl"} }
    /\ executed = <<>>
    /\ scaffoldErr = "nil"
    /\ IdleRestOfScaff

ScaffoldAPI ==
    /\ pc = "injected"
    /\ \E failAt \in 0..MaxCalls :
          \E r \in { Scaffold(scaffolder, failAt) } :
             /\ executed' = r.executed
             /\ scaffoldErr' = r.err
    /\ pc' = "scaffolded"
    /\ UNCHANGED <<scaffolder, restOfScaff>>

NextScaff == ScaffoldAPI

SpecScaff == InitScaff /\ [][NextScaff]_vars

CLITemplates == {"CmdUtils", "CmdInitSub", "CmdGenerateSub", "CmdVersionSub",
                 "CmdRootUpdater"}

IsCLIStep(step) == step.template \in CLITemplates
IsAPIStep(step) == step.template \notin CLITemplates

CLIExecuted == SelectSeq(executed, IsCLIStep)
APIExecuted == SelectSeq(executed, IsAPIStep)

\* the workloads the CLI has commands for: the parent is 0, component i is i
CommandWorkload(w) ==
    IF w = 0 THEN scaffolder.workload ELSE scaffolder.workload.Components[w]

CollectionWithoutResources(w) ==
    CommandWorkload(w).IsCollection /\ ~CommandWorkload(w).HasChildResources

\* the subcommand files of workload w, in the order the claim gives
CommandsOf(w) ==
    <<Step("CmdInitSub", w, 0)>>
    \o (IF CollectionWithoutResources(w) THEN <<>>
        ELSE <<Step("CmdGenerateSub", w, 0)>>)
    \o <<Step("CmdVersionSub", w, 0), Step("CmdRootUpdater", w, 0)>>

RECURSIVE CommandsFrom(_)
CommandsFrom(w) ==
    IF w > Len(scaffolder.workload.Components) THEN <<>>
    ELSE CommandsOf(w) \o CommandsFrom(w + 1)

WholeCLI == <<Step("CmdUtils", 0, 0)>> \o CommandsFrom(0)

RECURSIVE SumSourceFiles(_)
SumSourceFiles(components) ==
    IF components = <<>> THEN 0
    ELSE 2 + components[1].SourceFiles + SumSourceFiles(Tail(components))

\* the number of API scaffolding calls of a run in which none fails
APICalls ==
    2 + scaffolder.workload.SourceFiles + SumSourceFiles(scaffolder.workload.Components)

IsPrefix(a, b) == Len(a) <= Len(b) /\ a = SubSeq(b, 1, Len(a))

\* C27: scaffoldCLI handles the parent first and then each component in
\* order; for each it scaffolds init, generate (unless the workload is a
\* collection without child resources), version and the root-command update;
\* the CLI is scaffolded only when the root command name is non-empty and
\* only after every API file was scaffolded without error.
C27_CLIScaffolding ==
    pc = "scaffolded" =>
        /\ IsPrefix(CLIExecuted, WholeCLI)
        /\ (scaffoldErr = "nil" /\ scaffolder.cliRootCommandName # "") =>
              CLIExecuted = WholeCLI
        /\ (CLIExecuted # <<>> \/ scaffoldErr \in CLITemplates) =>
              /\ scaffolder.cliRootCommandName # ""
              /\ Len(APIExecuted) = APICalls
              /\ executed = APIExecuted \o CLIExecuted
        /\ scaffolder.cliRootCommandName = "" => CLIExecuted = <<>>

\* a collection without child resources and one component, scaffolded
\* without error: no generate subcommand for the collection, one for the
\* component
C27_Witness ==
    /\ pc = "scaffolded"
    /\ scaffoldErr = "nil"
    /\ scaffolder.workload.IsCollection
    /\ ~scaffolder.workload.HasChildResources
    /\ Len(scaffolder.workload.Components) = 1
    /\ CLIExecuted = <<Step("CmdUtils", 0, 0), Step("CmdInitSub", 0, 0),
                       Step("CmdVersionSub", 0, 0), Step("CmdRootUpdater", 0, 0),
                       Step("CmdInitSub", 1, 0), Step("CmdGenerateSub", 1, 0),
                       Step("CmdVersionSub", 1, 0), Step("CmdRootUpdater", 1, 0)>>

----------------------------------------------------------------------------
(* The generated component reconciler (controller template) *)

MaxRegistrations == 2
MaxWatches == 2

\* errors are chains of messages, the wrapped error last; fmt.Errorf("..., %w", err)
Wrap(message, error) == <<message>> \o error

NoError == <<>>
ErrCollectionNotFound == <<"ErrCollectionNotFound">>
StatusNotFound == <<"NotFound">>
StatusInternal == <<"InternalError">>

\* errors.Is(err, target) for a sentinel target: the chain ends in it
errorsIs(error, target) == error # NoError /\ error[Len(error)] = target[1]

\* apierrs.IsNotFound
IsNotFound(error) == error # NoError /\ error[Len(error)] = StatusNotFound[1]

CollectionGVK == "Collection"
\* a nil collection pointer; no collection of the cluster has an empty name
NoCollection == [Name |-> "", Namespace |-> ""]
\* the result of GetCollection when it was not called
NotCalled == [collection |-> NoCollection, err |-> NoError, called |-> FALSE]

\* var collectionRef CollectionSpec: the zero value
collectionRef == [Name |-> "", Namespace |-> ""]

hasSpecificCollection_AnyField(component) ==
    component.Spec.Collection # collectionRef

hasSpecificCollection(component) ==
    component.Spec.Collection # collectionRef /\ component.Spec.Collection.Name # ""

RECURSIVE findCollection(_, _, _)
\* for _, collection := range collectionList.Items
findCollection(Items, ref, k) ==
    IF k > Len(Items) THEN [collection |-> NoCollection, err |-> ErrCollectionNotFound, called |-> TRUE]
    ELSE IF Items[k].Name = ref.Name /\ Items[k].Namespace = ref.Namespace
         THEN [collection |-> Items[k], err |-> NoError, called |-> TRUE]
         ELSE findCollection(Items, ref, k + 1)

\* GetCollection; call holds what the cluster answers; the result is
\* [collection, err]
GetCollection(component, call) ==
    IF call.fault = "List"
    THEN [collection |-> NoCollection,
          err |-> Wrap("unable to list collection", StatusInternal), called |-> TRUE]
    ELSE IF ~hasSpecificCollection(component)
         THEN IF Len(call.Items) # 1
              THEN [collection |-> NoCollection,
                    err |-> <<"expected only 1 collection">>, called |-> TRUE]
              ELSE [collection |-> call.Items[1], err |-> NoError, called |-> TRUE]
         ELSE findCollection(call.Items, component.Spec.Collection, 1)

IsWatched(watches, gvk) == \E k \in 1..Len(watches) : watches[k] = gvk

\* EnqueueRequestOnCollectionChange; r = [Watches, watched]; the result is
\* [watched, err]
EnqueueRequestOnCollectionChange(r, reqCollection, call) ==
    IF Len(r.Watches) > 0 /\ IsWatched(r.Watches, CollectionGVK)
    THEN [watched |-> r.watched, err |-> NoError]
    ELSE IF call.fault = "Watch"
         THEN [watched |-> r.watched, err |-> <<"Watch">>]
         ELSE [watched |-> Append(r.watched, reqCollection), err |-> NoError]

\* SetCollection; the result is [Collection, watched, err, got]
SetCollection(r, component, call) ==
    Value({ IF got.err # NoError \/ got.collection = NoCollection
            THEN [Collection |-> NoCollection, watched |-> r.watched,
                  err |-> Wrap("unable to set collection",
                               got.err),
                  got |-> got]
            ELSE IF call.fault = "OwnerRef"
            THEN [Collection |-> got.collection, watched |-> r.watched,
                  err |-> Wrap("unable to set owner reference", <<"SetControllerReference">>),
                  got |-> got]
            ELSE Value({ [Collection |-> got.collection, watched |-> enq.watched,
                          err |-> enq.err, got |-> got] :
                         enq \in { EnqueueRequestOnCollectionChange(
                                       r, got.collection, call) } }) :
            got \in { GetCollection(component, call) } })

\* NewRequest for a component; the result is [built, Collection, watched, err, got]
NewRequest(r, call) ==
    IF call.fault = "GetNotFound"
    THEN [Collection |-> NoCollection, watched |-> r.watched,
          err |-> StatusNotFound, got |-> NotCalled]
    ELSE IF call.fault = "GetInternal"
    THEN [Collection |-> NoCollection, watched |-> r.watched,
          err |-> Wrap("unable to fetch workload", StatusInternal), got |-> NotCalled]
    ELSE SetCollection(r, call.component, call)

requeues_Never(error) == FALSE

\* errors.Is(err, workload.ErrCollectionNotFound)
requeues(error) == errorsIs(error, ErrCollectionNotFound)

\* Reconcile of a component; the result is what it returns (Requeue, err)
\* and what it did (hooks, phases executed, the watch registrations)
Reconcile(r, call) ==
    Value({ IF req.err # NoError
            THEN IF requeues(req.err)
                 THEN [Requeue |-> TRUE, err |-> NoError, hooks |-> FALSE,
                       phases |-> FALSE, request |-> req]
                 ELSE IF ~IsNotFound(req.err)
                 THEN [Requeue |-> FALSE, err |-> req.err, hooks |-> FALSE,
                       phases |-> FALSE, request |-> req]
                 ELSE [Requeue |-> FALSE, err |-> NoError, hooks |-> FALSE,
                       phases |-> FALSE, request |-> req]
            ELSE IF call.fault = "DeleteHooks"
            THEN [Requeue |-> FALSE, err |-> <<"RegisterDeleteHooks">>, hooks |-> TRUE,
                  phases |-> FALSE, request |-> req]
            ELSE [Requeue |-> call.phases.Requeue, err |-> call.phases.err,
                  hooks |-> TRUE, phases |-> TRUE, request |-> req] :
            req \in { NewRequest(r, call) } })

CollectionA == [Name |-> "a", Namespace |-> "ns"]
CollectionB == [Name |-> "b", Namespace |-> "ns"]
CollectionA2 == [Name |-> "a", Namespace |-> "other"]

\* what r.List finds in the cluster: no two collections share name and namespace
ItemsInputs ==
    { <<>>, <<CollectionA>>, <<CollectionB>>, <<CollectionA, CollectionB>>,
      <<CollectionB, CollectionA>>, <<CollectionA2, CollectionA>> }

ComponentObjects ==
    { [Spec |-> [Collection |-> [Name |-> n, Namespace |-> ns]]] :
        n \in {"", "a"}, ns \in {"", "ns"} }

\* what goes wrong during one Reconcile call, at most one thing per call
Faults == {"none", "GetNotFound", "GetInternal", "List", "OwnerRef", "Watch",
           "DeleteHooks", "PhaseRequeue", "PhaseError"}

\* what r.Phases.HandleExecution returns
PhasesResult(fault) ==
    [Requeue |-> fault = "PhaseRequeue",
     err |-> IF fault = "PhaseError" THEN <<"phase">> ELSE NoError]

CallInputs ==
    { [component |-> component, Items |-> items, fault |-> fault,
       phases |-> PhasesResult(fault)] :
        component \in ComponentObjects, items \in ItemsInputs, fault \in Faults }

\* the reconciler NewReconciler builds, after SetupWithManager
InitCtrl ==
    /\ pc = "setup"
    /\ Watches = <<>>
    /\ watched = <<>>
    /\ lastCall = <<>>
    /\ result = <<>>
    /\ IdleRestOfCtrl

ComponentReconcile ==
    /\ Len(watched) < MaxRegistrations
    /\ \E call \in CallInputs :
          \E r \in { Reconcile([Watches |-> Watches, watched |-> watched], call) } :
             /\ lastCall' = call
             /\ result' = r
             /\ watched' = r.request.watched
    /\ pc' = "reconciled"
    /\ UNCHANGED <<Watches, restOfCtrl>>

\* SetWatch, called by the phases for the kinds they start to watch
SetWatch ==
    /\ Len(Watches) < MaxWatches
    /\ \E watch \in {CollectionGVK, "Deployment"} : Watches' = Append(Watches, watch)
    /\ pc' = "watching"
    /\ UNCHANGED <<watched, lastCall, result, restOfCtrl>>

NextCtrl == ComponentReconcile \/ SetWatch

SpecCtrl == InitCtrl /\ [][NextCtrl]_vars

Reconciled == pc = "reconciled"

\* the last call listed the collections: GetCollection answered from the list
Listed == Reconciled /\ result.request.got.called /\ lastCall.fault # "List"

RequestedRef == lastCall.component.Spec.Collection

Matching == { k \in 1..Len(lastCall.Items) :
                /\ lastCall.Items[k].Name = RequestedRef.Name
                /\ lastCall.Items[k].Namespace = RequestedRef.Namespace }

\* C21: with an empty collection name GetCollection returns the single
\* existing collection and fails whenever the number of collections is not
\* exactly one; with a name it returns the collection whose name and
\* namespace both match, and ErrCollectionNotFound when none matches.
C21_GetCollection ==
    Listed =>
        IF RequestedRef.Name = ""
        THEN IF Len(lastCall.Items) = 1
             THEN /\ result.request.got.err = NoError
                  /\ result.request.got.collection = lastCall.Items[1]
             ELSE /\ result.request.got.err # NoError
                  /\ result.request.got.collection = NoCollection
        ELSE IF Matching # {}
             THEN /\ result.request.got.err = NoError
                  /\ \E k \in Matching :
                        result.request.got.collection = lastCall.Items[k]
             ELSE /\ result.request.got.err = ErrCollectionNotFound
                  /\ result.request.got.collection = NoCollection

\* a named collection found second in the list
C21_Witness ==
    /\ Listed
    /\ RequestedRef = CollectionA
    /\ lastCall.Items = <<CollectionA2, CollectionA>>
    /\ result.request.got.collection = CollectionA

\* no name but a namespace: the single collection is returned
C21_WitnessUnnamed ==
    /\ Listed
    /\ RequestedRef = [Name |-> "", Namespace |-> "ns"]
    /\ lastCall.Items = <<CollectionB>>
    /\ result.request.got.collection = CollectionB

\* why building the request of the last call failed, told from what the
\* cluster answered
Cause ==
    IF lastCall.fault = "GetNotFound" THEN "workload not found"
    ELSE IF lastCall.fault \in {"GetInternal", "List"} THEN "other"
    ELSE IF RequestedRef.Name = "" /\ Len(lastCall.Items) # 1 THEN "other"
    ELSE IF RequestedRef.Name # "" /\ Matching = {} THEN "collection not found"
    ELSE IF lastCall.fault = "OwnerRef" THEN "other"
    ELSE IF lastCall.fault = "Watch" /\ ~IsWatched(Watches, CollectionGVK) THEN "other"
    ELSE "built"

C30_WatchRegisteredOnce ==
    /\ [](\A i, j \in 1..Len(watched) : watched[i] = watched[j] => i = j)
    /\ [][IsWatched(Watches, CollectionGVK) => watched' = watched]_vars

\* the second half of C30 alone
C30_NoWatchOnceListed ==
    [][IsWatched(Watches, CollectionGVK) => watched' = watched]_vars


====
